---- MODULE Spec2Model ----
(***************************************************************************)
(* Session pools (backend/app/services/device_pool.py) and the recording   *)
(* supervisor (backend/app/services/recording_manager.py) of the           *)
(* home-automation backend, as state machines on asyncio's single-threaded *)
(* cooperative scheduler: a step of the model is the code a task runs      *)
(* between two suspension points.                                          *)
(***************************************************************************)
EXTENDS Integers, Sequences, FiniteSets, TLC

(***************************************************************************)
(* Bounds of the model.                                                    *)
(***************************************************************************)
NumKeys == 1            \* pool keys (camera ip addresses)
NumTasks == 2           \* request-handler tasks using the pools
MaxTicks == 3           \* advances of the monotonic clock
MaxSessions == 2        \* session objects the factories may hand out
UnitsPerSecond == 2     \* clock resolution: time is counted in 1/UnitsPerSecond s
NumCameras == 2         \* active cameras in the database
MaxProcs == 3           \* capture processes the supervisor may launch
NumNames == 3           \* distinct segment file names per camera directory
MaxLost == 1            \* uploads that are stored remotely and yet reported as failed
MaxOld == 3             \* remote files that can be past the retention cutoff
MaxIdLen == 3           \* characters of a remote folder id
MaxNameLen == 1         \* characters of a folder name
NumYears == 2           \* years in which segments were recorded
NumMonths == 2          \* months of a year in which segments were recorded
NumDays == 2            \* days of a month on which segments were recorded
MaxSegments == 2        \* calls of _upload_segment
MaxRemote == 2          \* video files remote storage may hold
MaxWallSteps == 3       \* advances of the wall clock
MaxRetention == 2       \* days of the longest retention window
MaxFolders == 4         \* date folders of one camera on remote storage

Keys == 1..NumKeys
\* the keys the pools can be asked for: those the requests of the pool
\* specifications are made for, and one more that only the requests of the
\* event-loop specification are made for
AllKeys == 1..(NumKeys + 1)
Tasks == 1..NumTasks
Pools == {"device", "ptz"}
Cameras == 1..NumCameras
Pids == 1..MaxProcs
\* segment file names, numbered in lexicographic order: ffmpeg names a segment
\* %Y-%m-%d_%H-%M-%S.mp4, fixed width, so sorted() orders them by time
Names == 1..NumNames
\* the ids of the remote files that can be past the retention cutoff
OldIds == 1..MaxOld

(***************************************************************************)
(* Program constants.                                                      *)
(***************************************************************************)
SESSION_TTL == 600
\* settings.recording_retention_days
recording_retention_days == 30
\* the seconds of timedelta(days=1)
SECONDS_PER_DAY == 86400
\* the retention windows the environment may configure, 0 for none
RetentionWindows == 0..MaxRetention

\* the clock advances by one unit or by a whole TTL
TickSteps == {1, SESSION_TTL * UnitsPerSecond}

(***************************************************************************)
(* Error texts.  A text is a sequence of tokens: a literal piece of text   *)
(* or a run of decimal digits (with its value).                            *)
(***************************************************************************)
W(s) == [k |-> "w", w |-> s, n |-> 0]
D(n) == [k |-> "d", w |-> "", n |-> n]

SuspensionText(n) == <<W("Temporary Suspension: "), W("Try again in "), D(n), W(" seconds")>>
TimeoutText == <<W("Connection timed out")>>
MinutesText == <<W("Try again in "), D(5), W(" minutes")>>

\* seconds a device may name in its suspension message
SuspSeconds == {0, 1, SESSION_TTL}

\* what str(e) of a failed connect() can be
ConnectErrors == {SuspensionText(n) : n \in SuspSeconds} \cup {TimeoutText, MinutesText}

CredentialsText == <<W("Invalid authentication data")>>
UnauthorizedText(n) == <<W("Unauthorized. "), W("Try again in "), D(n), W(" seconds")>>

\* what str(e) of an error of the pytapo client's constructor can be
DeviceErrors ==
    ConnectErrors \cup {CredentialsText, UnauthorizedText(SESSION_TTL)}

\* "unauthorized" in w.lower() or "auth" in w.lower(), for the pieces of text
\* the error texts are made of
MentionsAuth(w) ==
    w \in {"Invalid authentication data", "Unauthorized. ",
           "Authentication failed for camera at "}

\* error_msg = str(e).lower(); "unauthorized" in error_msg or "auth" in error_msg
IsAuthError(e) == \E i \in 1..Len(e) : e[i].k = "w" /\ MentionsAuth(e[i].w)

\* str() of DeviceAuthenticationError(f"Authentication failed for camera at {ip}");
\* the digits of key k stand for the address
AuthenticationText(k) == <<W("Authentication failed for camera at "), D(k)>>

\* str() of DeviceConnectionError(f"Failed to connect to camera at {ip}: {e}")
ConnectionText(k, e) == <<W("Failed to connect to camera at "), D(k), W(": ")>> \o e

\* the authentication error keeps the text of the error it was raised from
TapoClient_connect_KeepsText(k, e) ==
    IF IsAuthError(e) THEN AuthenticationText(k) \o <<W(": ")>> \o e
    ELSE ConnectionText(k, e)

\* TapoClient.connect, lines 20-28: str() of the error it raises when the
\* constructor raised e
TapoClient_connect(k, e) ==
    IF IsAuthError(e) THEN AuthenticationText(k) ELSE ConnectionText(k, e)

\* re.search(r"Try again in (\d+) seconds", error_msg): the positions where
\* the pattern matches
MatchAt(msg) ==
    {i \in 1..Len(msg) :
        /\ i + 2 <= Len(msg)
        /\ msg[i].k = "w" /\ msg[i].w = "Try again in "
        /\ msg[i + 1].k = "d"
        /\ msg[i + 2].k = "w" /\ msg[i + 2].w = " seconds"}

\* the pattern without its unit, r"Try again in (\d+)"
_parse_suspension_seconds_NoUnit(msg) ==
    LET at == {i \in 1..Len(msg) :
                  /\ i + 1 <= Len(msg)
                  /\ msg[i].k = "w" /\ msg[i].w = "Try again in "
                  /\ msg[i + 1].k = "d"}
    IN  IF at = {}
        THEN [matched |-> FALSE, seconds |-> 0]
        ELSE LET i == CHOOSE j \in at : \A l \in at : j <= l
             IN  [matched |-> TRUE, seconds |-> msg[i + 1].n]

\* _parse_suspension_seconds: int(match.group(1)) if match else None
_parse_suspension_seconds(msg) ==
    IF MatchAt(msg) = {}
    THEN [matched |-> FALSE, seconds |-> 0]
    ELSE LET i == CHOOSE j \in MatchAt(msg) : \A l \in MatchAt(msg) : j <= l
         IN  [matched |-> TRUE, seconds |-> msg[i + 1].n]

VARIABLES
    now,            \* time.monotonic(), in clock units
    ticks,          \* number of clock advances so far
    pool,           \* pool[p][k]: the cached entry of key k in pool p
    suspensions,    \* DevicePool._suspensions: the suspension of each key
    locks,          \* locks[p][k]: the task holding the lock of key k, 0 when free
    tpc,            \* where each request task is inside PTZPool.get
    tkey,           \* the key of the PTZPool.get a task is in
    nsess,          \* session objects created so far
    lastEvent,      \* history: what last happened to key k of DevicePool: a session
                    \* was "stored", the entry was "invalidated", connect() "failed"
                    \* without a suspension, or it failed and k was "suspended"
    lastOp,         \* history: the pool operation the last step belonged to, and
                    \* what it handed to its caller
    hist            \* history: stale: the sessions made by connects that were
                    \* in flight when their key was invalidated; flight: the
                    \* tasks whose connect is in flight and was so when their
                    \* key was invalidated; seconds[k]:
                    \* the seconds named by the failure that suspended key k;
                    \* report: the key whose suspension a Suspended failure
                    \* reported seconds for last, those seconds and the ones
                    \* reported for that suspension before, kept where
                    \* reports is set; outdated: the sessions made with
                    \* credentials that update_camera has replaced since

poolVars == <<now, ticks, pool, suspensions, locks, tpc, tkey, nsess,
              lastEvent, lastOp, hist>>

VARIABLES
    running,        \* RecordingManager._running
    processes,      \* RecordingManager._processes: camera id -> process, 0 when absent
    tasks,          \* RecordingManager._tasks: the watchers listed, and whether
                    \* the upload and cleanup workers are
    startPc,        \* where start() is
    startChild,     \* the process whose launch is in flight in start()
    stopPc,         \* where stop() is
    stopCam,        \* the camera whose process stop() is terminating
    nprocs,         \* capture processes launched so far
    procState,      \* each process: "unborn", "alive", "termed" (SIGTERM sent), "exited"
    procCam,        \* the camera each process records
    wpc,            \* where the watcher task created with each process is
    wproc,          \* the process a watcher waits for
    wchild,         \* the process whose launch is in flight in a watcher
    cancelReq,      \* task.cancel() was called on the watcher
    workers,        \* the upload and cleanup tasks: "none", "running", "cancelled"
    unwatched,      \* history: cameras whose watcher returned after a failed relaunch
    startFailed,    \* history: cameras whose launch failed in start()
    killed          \* history: the processes stop() called kill() on

recVars == <<running, processes, tasks, startPc, startChild, stopPc, stopCam, nprocs,
             procState, procCam, wpc, wproc, wchild, cancelReq, workers, unwatched,
             startFailed, killed>>

VARIABLES
    gdrive,         \* RecordingManager._gdrive is set
    files,          \* files[c]: the *.mp4 files in the directory of camera c
    upc,            \* where the upload worker is
    udir,           \* the camera directory it is in
    mp4_files,      \* sorted(cam_dir.glob("*.mp4")) of that directory
    uidx,           \* the position in `completed` of the file being uploaded
    attempt,        \* the attempt number of the upload in flight
    ulog,           \* history: the calls and sleeps made for the file selected last
    abandoned,      \* history: abandoned[c]: files given up after the last attempt
    remote,         \* remote[c][n]: files named after segment n of camera c in
                    \* its date folder on remote storage
    lost,           \* uploads stored remotely and yet reported as failed so far
    stray,          \* the recordings directory holds a directory whose name is
                    \* not a camera id
    strayAt         \* the camera directory after which the listing of the scan
                    \* under way yields that directory, -1 if it does not

upVars == <<gdrive, files, upc, udir, mp4_files, uidx, attempt, ulog, abandoned,
            remote, lost, stray, strayAt>>

VARIABLES
    cpc,            \* where the cleanup worker is
    expired,        \* the remote files that are past the retention cutoff
    old_files,      \* the batch list_old_files returned to the pass under way,
                    \* kept until the next pass
    cidx,           \* the position in old_files of the delete in flight
    cattempted,     \* history: the files of the batch a delete was called for
    clog            \* history: what the last pass logged

cleanVars == <<cpc, expired, old_files, cidx, cattempted, clog>>

VARIABLES
    folder_cache,   \* RecordingManager._folder_cache: pairs <<key, folder id>>
    fpc,            \* where the call of _get_folder_id under way is
    fname,          \* its name argument
    fparent,        \* its parent_id argument
    drive_folders,  \* the folders on remote storage: <<parent id, name, id>>
    flog,           \* history: the last call, the remote calls it made and
                    \* what it returned
    resolved        \* history: <<parent id, name, id>> of every call that
                    \* returned from the remote find-or-create

foldVars == <<folder_cache, fpc, fname, fparent, drive_folders, flog, resolved>>

VARIABLES
    date_folders,   \* the names of the date folders in the camera's folder,
                    \* in the order in which list_subfolders gives them
    created,        \* history: the <<year, month, day>> they were created for
    dquery,         \* the arguments of the last get_recording_days
    date_listing,   \* what list_subfolders returned to it
    dseen,          \* history: `created` at the time of that listing
    days            \* what it returned

dayVars == <<date_folders, created, dquery, date_listing, dseen, days>>

VARIABLES
    spc,            \* where the call of _upload_segment under way is
    scall,          \* its arguments and local variables
    supload,        \* history: the arguments of the last upload_file that
                    \* returned, and the segment it was called for
    scount          \* calls of _upload_segment so far

segVars == <<spc, scall, supload, scount>>

VARIABLES
    wall,           \* datetime.now(timezone.utc), in clock units
    wallSteps,      \* number of advances of that clock so far
    retention_days, \* settings.recording_retention_days as the environment sets it
    drive_files,    \* the video files in the date folders on remote storage:
                    \* records [id, createdTime]
    sweep,          \* the list_old_files call of the cleanup pass under way:
                    \* its time, its older_than_days and its cutoff_str
    swept           \* history: the files delete_file removed, each with the
                    \* pass that removed it

retVars == <<wall, wallSteps, retention_days, drive_files, sweep, swept>>

\* the variables of the folder cache, of the recording queries, of the
\* upload of one segment and of the retention of remote files
svcVars == <<foldVars, dayVars, segVars, retVars>>

vars == <<poolVars, recVars, upVars, cleanVars, svcVars>>

NoEntry == [present |-> FALSE, session |-> 0, created_at |-> 0]
NoSuspension == [present |-> FALSE, retry_after |-> 0]
\* no Suspended failure has reported seconds for a suspension still there
NoReport == [key |-> 0, reported |-> -1, before |-> -1]

\* an operation without a result for its caller
Op(name, p, k, t) ==
    [op |-> name, pool |-> p, key |-> k, task |-> t,
     outcome |-> "none", session |-> 0, error |-> <<>>, remaining |-> 0,
     after |-> "none", cause |-> <<>>]
\* get() returned session s: from the cache ("hit") or from connect() ("created")
Returned(p, k, t, kind, s) ==
    [op |-> "get", pool |-> p, key |-> k, task |-> t,
     outcome |-> kind, session |-> s, error |-> <<>>, remaining |-> 0,
     after |-> IF p = "device" THEN lastEvent[k] ELSE "none", cause |-> <<>>]
\* get() let the error of connect() through
RaisedError(p, k, t, msg) ==
    [op |-> "get", pool |-> p, key |-> k, task |-> t,
     outcome |-> "failed", session |-> 0, error |-> msg, remaining |-> 0,
     after |-> IF p = "device" THEN lastEvent[k] ELSE "none", cause |-> <<>>]
\* get() raised DeviceConnectionError("... temporarily suspended. Try again in r seconds.")
RaisedSuspended(p, k, t, r) ==
    [op |-> "get", pool |-> p, key |-> k, task |-> t,
     outcome |-> "suspended", session |-> 0, error |-> <<>>, remaining |-> r,
     after |-> IF p = "device" THEN lastEvent[k] ELSE "none", cause |-> <<>>]
\* get() reached `await connect()` and the connect is in flight
Connecting(p, k, t) ==
    [op |-> "get", pool |-> p, key |-> k, task |-> t,
     outcome |-> "connecting", session |-> 0, error |-> <<>>, remaining |-> 0,
     after |-> "none", cause |-> <<>>]
\* the error get() let through was raised in connect() from the error e
Caused(o, e) == [o EXCEPT !.cause = e]
\* the same operation, marked as run by a task that had to wait for the lock
Waited(o) == [o EXCEPT !.after = "waited"]

\* the history when key k has no suspension any more
Unsuspended(k) ==
    [hist EXCEPT !.seconds[k] = 0,
                 !.report = IF @.key = k THEN NoReport ELSE @]

\* the history when a failure that names n seconds has suspended key k
Suspended(k, n) ==
    [hist EXCEPT !.seconds[k] = n,
                 !.report = IF @.key = k THEN NoReport ELSE @]

\* the history when a Suspended failure has reported r seconds for key k,
\* where the reports are kept
Reported(k, r) ==
    IF hist.reports
    THEN [hist EXCEPT !.report =
            [key |-> k, reported |-> r,
             before |-> IF @.key = k THEN @.reported ELSE -1]]
    ELSE hist

\* _Entry(camera) / _PtzEntry(client): created_at = time.monotonic()
_Entry(s) == [present |-> TRUE, session |-> s, created_at |-> now]

\* is_expired with the comparison turned into >=: an entry aged exactly TTL
\* counts as expired
is_expired_AtTTL(e) == (now - e.created_at) >= SESSION_TTL * UnitsPerSecond

\* _Entry.is_expired / _PtzEntry.is_expired
is_expired(e) == (now - e.created_at) > SESSION_TTL * UnitsPerSecond

\* a suspension that is over when it is installed
_Suspension_Elapsed(r) == [present |-> TRUE, retry_after |-> now]

\* _Suspension(retry_after)
_Suspension(r) == [present |-> TRUE, retry_after |-> r]

\* is_active with the comparison turned into <=: the suspension still holds
\* at retry_after itself
is_active_Inclusive(s) == now <= s.retry_after

\* _Suspension.is_active
is_active(s) == now < s.retry_after

Max(a, b) == IF a >= b THEN a ELSE b

\* the seconds left are rounded up
remaining_seconds_RoundedUp(s) ==
    Max(0, (s.retry_after - now + UnitsPerSecond - 1) \div UnitsPerSecond)

\* _Suspension.remaining_seconds: max(0, int(retry_after - monotonic()))
remaining_seconds(s) ==
    LET d == s.retry_after - now
    IN  Max(0, IF d >= 0 THEN d \div UnitsPerSecond ELSE -((-d) \div UnitsPerSecond))

\* the history before the first call
NoHistory ==
    [stale |-> {}, flight |-> {}, seconds |-> [k \in AllKeys |-> 0],
     report |-> NoReport, reports |-> FALSE, outdated |-> {}]

\* the pools after construction, with the history h
PoolInitWith(h) ==
    /\ now = 0
    /\ ticks = 0
    /\ pool = [p \in Pools |-> [k \in AllKeys |-> NoEntry]]
    /\ suspensions = [k \in AllKeys |-> NoSuspension]
    /\ locks = [p \in Pools |-> [k \in AllKeys |-> 0]]
    /\ tpc = [t \in Tasks |-> "idle"]
    /\ tkey = [t \in Tasks |-> 0]
    /\ nsess = 0
    /\ lastEvent = [k \in AllKeys |-> "none"]
    /\ lastOp = Op("init", "device", 0, 0)
    /\ hist = h

PoolInit == PoolInitWith(NoHistory)

(***************************************************************************)
(* The per-key lock.  `async with lock` on a free asyncio.Lock does not    *)
(* yield; on a held lock the task waits until the holder releases it.      *)
(***************************************************************************)
\* a get() that does not look at the lock
LockFree_Ignored(p, k) == TRUE

\* asyncio.Lock.locked() is false for the lock _lock_for(k) returns
LockFree(p, k) == locks[p][k] = 0

\* entering the `async with lock` block
Acquired(p, k, t) == [locks EXCEPT ![p][k] = t]

\* the lock stays with the task that leaves the block
Released_Kept(p, k) == locks

\* leaving the `async with lock` block
Released(p, k) == [locks EXCEPT ![p][k] = 0]

(***************************************************************************)
(* DevicePool.get.  TapoCamera.connect awaits TapoClient.connect, which    *)
(* builds the pytapo client synchronously and contains no suspension       *)
(* point, so `await tapo.connect()` never yields to the event loop: the    *)
(* body of get() runs from the lock to the return or raise in one step,    *)
(* whichever request task runs it (task 0 stands for that task).           *)
(***************************************************************************)
\* the error TapoClient.connect raises for key k from the error e of the
\* device, and what _parse_suspension_seconds finds in its text
connect_raises ==
    [k \in AllKeys |->
        [e \in DeviceErrors |->
            [msg |-> TapoClient_connect(k, e),
             parsed |-> _parse_suspension_seconds(TapoClient_connect(k, e))]]]

\* lines 92-107: the outcome of `await tapo.connect()`, with the lock held;
\* susp is the suspension table after line 76
DevicePool_connect(k, susp) ==
    \/ /\ nsess < MaxSessions                       \* connect() returned
       /\ nsess' = nsess + 1
       /\ pool' = [pool EXCEPT !["device"][k] = _Entry(nsess + 1)]
       /\ suspensions' = susp
       /\ lastOp' = Returned("device", k, 0, "created", nsess + 1)
       /\ lastEvent' = [lastEvent EXCEPT ![k] = "stored"]
       /\ hist' = Unsuspended(k)
    \/ \E e \in DeviceErrors :                     \* connect() raised
         LET msg == connect_raises[k][e].msg
             parsed == connect_raises[k][e].parsed
         IN  /\ suspensions' =
                    IF parsed.matched /\ parsed.seconds # 0
                    THEN [susp EXCEPT ![k] =
                             _Suspension(now + parsed.seconds * UnitsPerSecond)]
                    ELSE susp
             /\ lastOp' = Caused(RaisedError("device", k, 0, msg), e)
             /\ lastEvent' = [lastEvent EXCEPT ![k] =
                    IF parsed.matched /\ parsed.seconds # 0 THEN "suspended" ELSE "failed"]
             /\ hist' = IF parsed.matched /\ parsed.seconds # 0
                        THEN Suspended(k, parsed.seconds)
                        ELSE Unsuspended(k)
             /\ UNCHANGED <<pool, nsess>>

\* the suspension that is over stays in the table
clear_expired_Kept(k) == suspensions

\* lines 75-76, reached when no suspension of the key is active:
\* if suspension: del self._suspensions[key]
clear_expired(k) == [suspensions EXCEPT ![k] = NoSuspension]

\* lines 60-107
DevicePool_get(k) ==
    /\ UNCHANGED <<recVars, upVars, cleanVars, svcVars>>
    /\ LockFree("device", k)
    /\ locks' = Released("device", k)
    /\ UNCHANGED <<now, ticks, tpc, tkey>>
    /\ LET suspension == suspensions[k]
           cleared == clear_expired(k)
           entry == pool["device"][k]
       IN  IF suspension.present /\ is_active(suspension)
           THEN /\ lastOp' = RaisedSuspended("device", k, 0, remaining_seconds(suspension))
                /\ hist' = Reported(k, remaining_seconds(suspension))
                /\ UNCHANGED <<pool, suspensions, nsess, lastEvent>>
           ELSE IF entry.present /\ ~is_expired(entry)
           THEN /\ lastOp' = Returned("device", k, 0, "hit", entry.session)
                /\ suspensions' = cleared
                /\ hist' = Unsuspended(k)
                /\ UNCHANGED <<pool, nsess, lastEvent>>
           ELSE DevicePool_connect(k, cleared)

\* remove() that also pops the suspension of the key
DevicePool_remove_ClearsSuspension(k) ==
    /\ UNCHANGED <<recVars, upVars, cleanVars, svcVars>>
    /\ pool' = [pool EXCEPT !["device"][k] = NoEntry]
    /\ suspensions' = [suspensions EXCEPT ![k] = NoSuspension]
    /\ lastEvent' = [lastEvent EXCEPT ![k] = "invalidated"]
    /\ lastOp' = Op("remove", "device", k, 0)
    /\ UNCHANGED hist
    /\ UNCHANGED <<now, ticks, locks, tpc, tkey, nsess>>

\* DevicePool.remove: self._pool.pop(ip_address, None)
DevicePool_remove(k) ==
    /\ UNCHANGED <<recVars, upVars, cleanVars, svcVars>>
    /\ pool' = [pool EXCEPT !["device"][k] = NoEntry]
    /\ lastEvent' = [lastEvent EXCEPT ![k] = "invalidated"]
    /\ lastOp' = Op("remove", "device", k, 0)
    /\ UNCHANGED hist
    /\ UNCHANGED <<now, ticks, suspensions, locks, tpc, tkey, nsess>>

\* invalidate() that leaves the cached entry in the pool
DevicePool_invalidate_KeepsEntry(k) ==
    /\ UNCHANGED <<recVars, upVars, cleanVars, svcVars>>
    /\ lastEvent' = [lastEvent EXCEPT ![k] = "invalidated"]
    /\ lastOp' = Op("invalidate", "device", k, 0)
    /\ UNCHANGED hist
    /\ UNCHANGED <<now, ticks, pool, suspensions, locks, tpc, tkey, nsess>>

\* DevicePool.invalidate: self.remove(ip_address)
DevicePool_invalidate(k) ==
    /\ UNCHANGED <<recVars, upVars, cleanVars, svcVars>>
    /\ pool' = [pool EXCEPT !["device"][k] = NoEntry]
    /\ lastEvent' = [lastEvent EXCEPT ![k] = "invalidated"]
    /\ lastOp' = Op("invalidate", "device", k, 0)
    /\ UNCHANGED hist
    /\ UNCHANGED <<now, ticks, suspensions, locks, tpc, tkey, nsess>>

(***************************************************************************)
(* DevicePool.get on the event loop, with the time its factory call takes. *)
(* TapoClient.connect builds the pytapo client, which talks to the camera  *)
(* with blocking calls, inside a coroutine that never awaits: from the     *)
(* call of the factory to its return the event loop runs no other task.    *)
(***************************************************************************)
\* the event loop is not inside a factory call of DevicePool
LoopFree == \A t \in Tasks : tpc[t] # "in_factory"

\* lines 60-91, run by task t when the event loop gives it control: the get
\* raises Suspended, returns the cached session or calls the factory
DevicePool_get_enter(t, k) ==
    /\ UNCHANGED <<recVars, upVars, cleanVars, svcVars>>
    /\ LoopFree
    /\ tpc[t] = "idle"
    /\ LockFree("device", k)
    /\ UNCHANGED <<now, ticks, pool, nsess, lastEvent>>
    /\ LET suspension == suspensions[k]
           entry == pool["device"][k]
       IN  IF suspension.present /\ is_active(suspension)
           THEN /\ lastOp' = RaisedSuspended("device", k, t, remaining_seconds(suspension))
                /\ hist' = Reported(k, remaining_seconds(suspension))
                /\ locks' = Released("device", k)
                /\ UNCHANGED <<suspensions, tpc, tkey>>
           ELSE IF entry.present /\ ~is_expired(entry)
           THEN /\ lastOp' = Returned("device", k, t, "hit", entry.session)
                /\ suspensions' = clear_expired(k)
                /\ hist' = Unsuspended(k)
                /\ locks' = Released("device", k)
                /\ UNCHANGED <<tpc, tkey>>
           ELSE /\ lastOp' = Connecting("device", k, t)
                /\ suspensions' = clear_expired(k)
                /\ hist' = Unsuspended(k)
                /\ locks' = Acquired("device", k, t)
                /\ tpc' = [tpc EXCEPT ![t] = "in_factory"]
                /\ tkey' = [tkey EXCEPT ![t] = k]

\* lines 92-107: the factory call of task t returns or raises, and get() with it
DevicePool_get_leave(t) ==
    /\ UNCHANGED <<recVars, upVars, cleanVars, svcVars>>
    /\ tpc[t] = "in_factory"
    /\ DevicePool_connect(tkey[t], suspensions)
    /\ locks' = Released("device", tkey[t])
    /\ tpc' = [tpc EXCEPT ![t] = "idle"]
    /\ tkey' = [tkey EXCEPT ![t] = 0]
    /\ UNCHANGED <<now, ticks>>

\* the steps of the request tasks that use DevicePool, as the event loop
\* runs them
DeviceLoopNext ==
    \/ \E t \in Tasks, k \in AllKeys : DevicePool_get_enter(t, k)
    \/ \E t \in Tasks : DevicePool_get_leave(t)
    \/ \E k \in AllKeys : LoopFree /\ DevicePool_invalidate(k)

(***************************************************************************)
(* PTZPool.get.  OnvifPTZClient.connect awaits the camera over the         *)
(* network, so the task holds the lock across a suspension point and other *)
(* tasks run while the connect is in flight.                               *)
(***************************************************************************)
\* lines 144-155, run by task t once it holds the lock of key k
PTZPool_get_locked(t, k, waited) ==
    /\ UNCHANGED <<now, ticks, pool, suspensions, nsess, lastEvent, hist>>
    /\ LET entry == pool["ptz"][k]
       IN  IF entry.present /\ ~is_expired(entry)
           THEN /\ lastOp' = IF waited THEN Waited(Returned("ptz", k, t, "hit", entry.session))
                                      ELSE Returned("ptz", k, t, "hit", entry.session)
                /\ tpc' = [tpc EXCEPT ![t] = "idle"]
                /\ tkey' = [tkey EXCEPT ![t] = 0]
                /\ locks' = Released("ptz", k)
           ELSE /\ lastOp' = IF waited THEN Waited(Connecting("ptz", k, t))
                                      ELSE Connecting("ptz", k, t)
                /\ tpc' = [tpc EXCEPT ![t] = "connecting"]
                /\ tkey' = [tkey EXCEPT ![t] = k]
                /\ locks' = Acquired("ptz", k, t)

\* lines 140-144: the call, up to the lock
PTZPool_get(t, k) ==
    /\ UNCHANGED <<recVars, upVars, cleanVars, svcVars>>
    /\ tpc[t] = "idle"
    /\ IF LockFree("ptz", k)
       THEN PTZPool_get_locked(t, k, FALSE)
       ELSE /\ tpc' = [tpc EXCEPT ![t] = "waiting"]
            /\ tkey' = [tkey EXCEPT ![t] = k]
            /\ UNCHANGED locks
            /\ lastOp' = Op("wait", "ptz", k, t)
            /\ UNCHANGED <<now, ticks, pool, suspensions, nsess, lastEvent, hist>>

\* line 144: a waiting task is given the lock
PTZPool_get_acquire(t) ==
    /\ UNCHANGED <<recVars, upVars, cleanVars, svcVars>>
    /\ tpc[t] = "waiting"
    /\ LockFree("ptz", tkey[t])
    /\ PTZPool_get_locked(t, tkey[t], TRUE)

\* lines 155-157: `await client.connect()` returned
PTZPool_connect_return(t) ==
    /\ UNCHANGED <<recVars, upVars, cleanVars, svcVars>>
    /\ tpc[t] = "connecting"
    /\ nsess < MaxSessions
    /\ nsess' = nsess + 1
    /\ pool' = [pool EXCEPT !["ptz"][tkey[t]] = _Entry(nsess + 1)]
    /\ lastOp' = Returned("ptz", tkey[t], t, "created", nsess + 1)
    /\ hist' = IF t \in hist.flight
               THEN [hist EXCEPT !.stale = @ \cup {nsess + 1}, !.flight = @ \ {t}]
               ELSE hist
    /\ tpc' = [tpc EXCEPT ![t] = "idle"]
    /\ tkey' = [tkey EXCEPT ![t] = 0]
    /\ locks' = Released("ptz", tkey[t])
    /\ UNCHANGED <<now, ticks, suspensions, lastEvent>>

\* line 155: `await client.connect()` raised; the error leaves get()
PTZPool_connect_raise(t, msg) ==
    /\ UNCHANGED <<recVars, upVars, cleanVars, svcVars>>
    /\ tpc[t] = "connecting"
    /\ lastOp' = RaisedError("ptz", tkey[t], t, msg)
    /\ hist' = [hist EXCEPT !.flight = @ \ {t}]
    /\ tpc' = [tpc EXCEPT ![t] = "idle"]
    /\ tkey' = [tkey EXCEPT ![t] = 0]
    /\ locks' = Released("ptz", tkey[t])
    /\ UNCHANGED <<now, ticks, pool, suspensions, nsess, lastEvent>>

\* the task is cancelled inside PTZPool.get: CancelledError is raised at the
\* await it is suspended in.  Waiting for the lock, it leaves the waiters of
\* the lock; in `await client.connect()`, the error leaves the `async with`
\* block, which releases the lock.
PTZPool_get_cancelled(t) ==
    /\ UNCHANGED <<recVars, upVars, cleanVars, svcVars>>
    /\ tpc[t] \in {"waiting", "connecting"}
    /\ locks' = IF tpc[t] = "connecting" THEN Released("ptz", tkey[t]) ELSE locks
    /\ lastOp' = IF tpc[t] = "waiting" THEN Waited(Op("cancel", "ptz", tkey[t], t))
                                      ELSE Op("cancel", "ptz", tkey[t], t)
    /\ hist' = [hist EXCEPT !.flight = @ \ {t}]
    /\ tpc' = [tpc EXCEPT ![t] = "idle"]
    /\ tkey' = [tkey EXCEPT ![t] = 0]
    /\ UNCHANGED <<now, ticks, pool, suspensions, nsess, lastEvent>>

\* PTZPool.invalidate: self._pool.pop(ip_address, None)
PTZPool_invalidate(k) ==
    /\ UNCHANGED <<recVars, upVars, cleanVars, svcVars>>
    /\ pool' = [pool EXCEPT !["ptz"][k] = NoEntry]
    /\ lastOp' = Op("invalidate", "ptz", k, 0)
    /\ hist' = [hist EXCEPT
                  !.flight = @ \cup {t \in Tasks : tpc[t] = "connecting" /\ tkey[t] = k}]
    /\ UNCHANGED <<now, ticks, suspensions, locks, tpc, tkey, nsess, lastEvent>>

\* update_camera for the camera at address k, with a new username or
\* password and the address as it was: the row is committed and the session
\* of the primary pool is dropped.  The sessions the pools hold for the
\* camera at that moment were made with the credentials now replaced.
update_camera(k) ==
    /\ UNCHANGED <<recVars, upVars, cleanVars, svcVars>>
    /\ pool' = [pool EXCEPT !["device"][k] = NoEntry]
    /\ lastEvent' = [lastEvent EXCEPT ![k] = "invalidated"]
    /\ lastOp' = Op("update_camera", "device", k, 0)
    /\ hist' = [hist EXCEPT
                  !.outdated = @ \cup {pool[p][k].session :
                                          p \in {q \in Pools : pool[q][k].present}}]
    /\ UNCHANGED <<now, ticks, suspensions, locks, tpc, tkey, nsess>>

\* time.monotonic() advances
Tick(d) ==
    /\ UNCHANGED <<recVars, upVars, cleanVars, svcVars>>
    /\ ticks < MaxTicks
    /\ ticks' = ticks + 1
    /\ now' = now + d
    /\ lastOp' = Op("tick", "device", 0, 0)
    /\ UNCHANGED hist
    /\ UNCHANGED <<pool, suspensions, locks, tpc, tkey, nsess, lastEvent>>

DevicePoolNext ==
    \/ \E k \in Keys : DevicePool_get(k)
    \/ \E k \in Keys : DevicePool_remove(k)
    \/ \E k \in Keys : DevicePool_invalidate(k)
    \/ \E d \in TickSteps : Tick(d)

PTZPoolNext ==
    \/ \E t \in Tasks, k \in Keys : PTZPool_get(t, k)
    \/ \E t \in Tasks : PTZPool_get_acquire(t)
    \/ \E t \in Tasks : PTZPool_connect_return(t)
    \/ \E t \in Tasks, msg \in ConnectErrors : PTZPool_connect_raise(t, msg)
    \/ \E t \in Tasks : PTZPool_get_cancelled(t)
    \/ \E k \in Keys : PTZPool_invalidate(k)
    \/ \E d \in TickSteps : Tick(d)

\* the routes that get a session (ptz_control, get_presets) and the route
\* that updates a camera
CameraUpdateNext ==
    \/ \E t \in Tasks, k \in Keys : PTZPool_get(t, k)
    \/ \E t \in Tasks : PTZPool_get_acquire(t)
    \/ \E t \in Tasks : PTZPool_connect_return(t)
    \/ \E t \in Tasks : PTZPool_connect_raise(t, TimeoutText)
    \/ \E k \in Keys : DevicePool_get(k)
    \/ \E k \in Keys : update_camera(k)
    \/ \E d \in TickSteps : Tick(d)

(***************************************************************************)
(* The recording supervisor (RecordingManager).  A step is the code one    *)
(* task runs between two suspension points of the event loop.              *)
(***************************************************************************)
NoTasks == [watchers |-> {}, workers |-> FALSE]

RecInit ==
    /\ running = FALSE
    /\ processes = [c \in Cameras |-> 0]
    /\ tasks = NoTasks
    /\ startPc = "idle"
    /\ startChild = 0
    /\ stopPc = "idle"
    /\ stopCam = 0
    /\ nprocs = 0
    /\ procState = [p \in Pids |-> "unborn"]
    /\ procCam = [p \in Pids |-> 0]
    /\ wpc = [p \in Pids |-> "none"]
    /\ wproc = [p \in Pids |-> 0]
    /\ wchild = [p \in Pids |-> 0]
    /\ cancelReq = [p \in Pids |-> FALSE]
    /\ workers = "none"
    /\ unwatched = {}
    /\ startFailed = {}
    /\ killed = {}

UpInit ==
    /\ gdrive = FALSE
    /\ files = [c \in Cameras |-> {}]
    /\ upc = "none"
    /\ udir = 0
    /\ mp4_files = <<>>
    /\ uidx = 0
    /\ attempt = 0
    /\ ulog = [dir |-> 0, file |-> 0, calls |-> 0, delays |-> <<>>, result |-> "none"]
    /\ abandoned = [c \in Cameras |-> {}]
    /\ remote = [c \in Cameras |-> [n \in Names |-> 0]]
    /\ lost = 0
    /\ stray = FALSE
    /\ strayAt = -1
    /\ cpc = "none"
    /\ expired = {}
    /\ old_files = <<>>
    /\ cidx = 0
    /\ cattempted = {}
    /\ clog = "none"

NoCall == [name |-> <<>>, parent |-> <<>>, calls |-> 0, result |-> <<>>]
NoQuery == [year |-> 0, month |-> 0]
NoSegment == [camera_id |-> 0, written |-> <<>>, mp4 |-> <<>>, cam_folder_id |-> <<>>,
              date_folder_id |-> <<>>]
NoUpload == [camera_id |-> 0, written |-> <<>>, parent |-> <<>>, name |-> <<>>]

NoSweep == [now |-> 0, days |-> 0, storage |-> FALSE, cutoff_str |-> 0]

\* the services before their first call, with the retention window the
\* environment configures
SvcInitWith(window) ==
    /\ folder_cache = {}
    /\ fpc = "idle"
    /\ fname = <<>>
    /\ fparent = <<>>
    /\ drive_folders = {}
    /\ flog = NoCall
    /\ resolved = {}
    /\ date_folders = <<>>
    /\ created = {}
    /\ dquery = NoQuery
    /\ date_listing = <<>>
    /\ dseen = {}
    /\ days = <<>>
    /\ spc = "idle"
    /\ scall = NoSegment
    /\ supload = NoUpload
    /\ scount = 0
    /\ wall = 0
    /\ wallSteps = 0
    /\ retention_days = window
    /\ drive_files = {}
    /\ sweep = NoSweep
    /\ swept = {}

SvcInit == SvcInitWith(recording_retention_days)

Init == PoolInit /\ RecInit /\ UpInit /\ SvcInit

\* the same state, with any retention window, none included
RetentionInit ==
    \E window \in RetentionWindows : PoolInit /\ RecInit /\ UpInit /\ SvcInitWith(window)

\* the same state, with the seconds reported by Suspended failures kept in
\* the history
ReportsInit ==
    PoolInitWith([NoHistory EXCEPT !.reports = TRUE]) /\ RecInit /\ UpInit /\ SvcInit

\* the variables of the two workers other than their positions
upRest == <<files, udir, mp4_files, uidx, attempt, ulog, abandoned, remote, lost,
            stray, strayAt, expired, old_files, cidx, cattempted, clog, svcVars>>

\* the positions at which a watcher task is suspended
LiveWatch == {"created", "waiting", "backoff", "spawning"}

MinOf(S) == CHOOSE x \in S : \A y \in S : x <= y

Range(l) == {l[i] : i \in 1..Len(l)}

\* Camera.has_recording of the active cameras: recording is disabled for the
\* last of them
has_recording == [c \in Cameras |-> c < NumCameras]

\* Camera.recording_segment_seconds of the active cameras, 0 for None: the
\* first of them has an override of one minute
camera_segment_seconds == [c \in Cameras |-> IF c = 1 THEN 60 ELSE 0]

\* settings.recording_segment_seconds
settings_segment_seconds == 300

\* the -segment_time argument _start_camera gives the process of camera c
segment_time(c) == settings_segment_seconds

\* the error of a launch leaves _start_camera and ends start()
start_cameras_FailureRaises(c, ws) ==
    /\ UNCHANGED <<nprocs, procState, procCam, workers, upc, cpc, startChild>>
    /\ tasks' = [watchers |-> ws, workers |-> c > NumCameras]
    /\ IF c > NumCameras
       THEN /\ startPc' = "done"
            /\ UNCHANGED startFailed
       ELSE /\ startPc' = "raised"
            /\ startFailed' = startFailed \cup {c}

\* the loop of start() from camera c on, with ws the watchers listed so far.
\* create_subprocess_exec forks the child before it first suspends, and raises
\* (FileNotFoundError, OSError) before it suspends: cameras c..d-1 fail to
\* launch, each failure is logged and swallowed by _start_camera, and the launch
\* for camera d is in flight; with no camera left the two workers are created.
start_cameras(c, ws) ==
    \E d \in c..(NumCameras + 1) :
        /\ startFailed' = startFailed \cup (c..(d - 1))
        /\ IF d > NumCameras
           THEN /\ tasks' = [watchers |-> ws, workers |-> TRUE]
                /\ workers' = "running"
                /\ upc' = "sleep"
                /\ cpc' = "sleep"
                /\ startPc' = "done"
                /\ startChild' = 0
                /\ UNCHANGED <<nprocs, procState, procCam>>
           ELSE /\ nprocs < MaxProcs
                /\ nprocs' = nprocs + 1
                /\ procState' = [procState EXCEPT ![nprocs + 1] = "alive"]
                /\ procCam' = [procCam EXCEPT ![nprocs + 1] = d]
                /\ startPc' = "spawning"
                /\ startChild' = nprocs + 1
                /\ tasks' = [watchers |-> ws, workers |-> FALSE]
                /\ UNCHANGED <<workers, upc, cpc>>

\* start(), up to the awaits that initialise remote storage and fetch the
\* active cameras.  The lifespan handler calls start() once, before stop().
Start_begin ==
    /\ startPc = "idle"
    /\ stopPc = "idle"
    /\ running' = TRUE
    /\ startPc' = "fetch"
    /\ UNCHANGED <<processes, tasks, startChild, stopPc, stopCam, nprocs, procState,
                   procCam, wpc, wproc, wchild, cancelReq, workers, unwatched,
                   startFailed, killed>>
    /\ UNCHANGED <<poolVars, gdrive, upc, cpc, upRest>>

\* start() is called on a supervisor that was started before: nothing in
\* start() looks at the flag, the process table or the task list before it
\* launches, and it appends to the task list.  Of the workers the model
\* follows the pair created last.
Start_again ==
    /\ startPc = "done"
    /\ stopPc = "idle"
    /\ running' = TRUE
    /\ startPc' = "fetch"
    /\ UNCHANGED <<processes, tasks, startChild, stopPc, stopCam, nprocs, procState,
                   procCam, wpc, wproc, wchild, cancelReq, workers, unwatched,
                   startFailed, killed>>
    /\ UNCHANGED <<poolVars, gdrive, upc, cpc, upRest>>

\* start() resumes with the cameras: remote storage is set or not, and the
\* launches begin
Start_fetched ==
    /\ startPc = "fetch"
    /\ gdrive' \in BOOLEAN
    /\ start_cameras(1, tasks.watchers)
    /\ UNCHANGED <<running, processes, stopPc, stopCam, wpc, wproc, wchild,
                   cancelReq, unwatched, killed>>
    /\ UNCHANGED <<poolVars, upRest>>

\* the launch in flight in start() completes: the process is recorded, its
\* watcher is created and listed, and the loop goes on with the next camera
Start_spawned ==
    /\ startPc = "spawning"
    /\ LET p == startChild
           c == procCam[startChild]
       IN  /\ processes' = [processes EXCEPT ![c] = p]
           /\ wpc' = [wpc EXCEPT ![p] = "created"]
           /\ start_cameras(c + 1, tasks.watchers \cup {p})
    /\ UNCHANGED <<running, stopPc, stopCam, wproc, wchild, cancelReq, unwatched,
                   killed>>
    /\ UNCHANGED <<poolVars, gdrive, upRest>>

\* the variables no watcher step changes
watchRest == <<running, startPc, startChild, stopPc, stopCam, cancelReq, workers,
               startFailed, killed>>

\* _watch(camera_id) runs for the first time.  The watcher is named after the
\* process it was created with.  A task cancelled before its first step never
\* runs (Watch_cancelled).
Watch_begin(w) ==
    /\ wpc[w] = "created"
    /\ ~cancelReq[w]
    /\ IF ~running \/ processes[procCam[w]] = 0
       THEN /\ wpc' = [wpc EXCEPT ![w] = "done"]
            /\ UNCHANGED wproc
       ELSE /\ wpc' = [wpc EXCEPT ![w] = "waiting"]
            /\ wproc' = [wproc EXCEPT ![w] = processes[procCam[w]]]
    /\ UNCHANGED <<processes, tasks, nprocs, procState, procCam, wchild, unwatched>>
    /\ UNCHANGED <<watchRest, poolVars, upVars, cleanVars, svcVars>>

\* proc.wait() returns while the process is still running
Watch_exit_Early(w) ==
    /\ wpc[w] = "waiting"
    /\ ~cancelReq[w]
    /\ wpc' = [wpc EXCEPT ![w] = IF running THEN "backoff" ELSE "done"]
    /\ UNCHANGED <<processes, tasks, nprocs, procState, procCam, wproc, wchild,
                   unwatched>>
    /\ UNCHANGED <<running, startPc, startChild, stopPc, stopCam, cancelReq, workers,
                   startFailed, killed>>
    /\ UNCHANGED <<poolVars, upVars, cleanVars, svcVars>>

\* proc.wait() returns: the watcher leaves if the flag is cleared, else it
\* reads the process's stderr and sleeps 10 seconds.  Nothing of the
\* supervisor's state is read or written between those two awaits, which
\* are one position here.
Watch_exit(w) ==
    /\ wpc[w] = "waiting"
    /\ ~cancelReq[w]
    /\ procState[wproc[w]] = "exited"
    /\ wpc' = [wpc EXCEPT ![w] = IF running THEN "backoff" ELSE "done"]
    /\ UNCHANGED <<processes, tasks, nprocs, procState, procCam, wproc, wchild,
                   unwatched>>
    /\ UNCHANGED <<watchRest, poolVars, upVars, cleanVars, svcVars>>

\* the sleep ends.  With the flag set the watcher calls _start_camera: the
\* launch raises at once, is logged and swallowed, and the watcher returns
\* with no watcher created after it; or the child is forked and the launch
\* is in flight.
Watch_backoff_done(w) ==
    /\ wpc[w] = "backoff"
    /\ ~cancelReq[w]
    /\ IF ~running
       THEN /\ wpc' = [wpc EXCEPT ![w] = "done"]
            /\ UNCHANGED <<nprocs, procState, procCam, wchild, unwatched>>
       ELSE \/ /\ wpc' = [wpc EXCEPT ![w] = "done"]
               /\ unwatched' = unwatched \cup {procCam[w]}
               /\ UNCHANGED <<nprocs, procState, procCam, wchild>>
            \/ /\ nprocs < MaxProcs
               /\ nprocs' = nprocs + 1
               /\ procState' = [procState EXCEPT ![nprocs + 1] = "alive"]
               /\ procCam' = [procCam EXCEPT ![nprocs + 1] = procCam[w]]
               /\ wchild' = [wchild EXCEPT ![w] = nprocs + 1]
               /\ wpc' = [wpc EXCEPT ![w] = "spawning"]
               /\ UNCHANGED unwatched
    /\ UNCHANGED <<processes, tasks, wproc>>
    /\ UNCHANGED <<watchRest, poolVars, upVars, cleanVars, svcVars>>

\* the launch in flight in a watcher completes: the new process replaces the
\* old one in the table, a new watcher is created and listed, the old returns
Watch_spawned(w) ==
    /\ wpc[w] = "spawning"
    /\ ~cancelReq[w]
    /\ processes' = [processes EXCEPT ![procCam[w]] = wchild[w]]
    /\ tasks' = [tasks EXCEPT !.watchers = @ \cup {wchild[w]}]
    /\ wpc' = [wpc EXCEPT ![w] = "done", ![wchild[w]] = "created"]
    /\ UNCHANGED <<nprocs, procState, procCam, wproc, wchild, unwatched>>
    /\ UNCHANGED <<watchRest, poolVars, upVars, cleanVars, svcVars>>

\* CancelledError is raised in the watcher at the await it is suspended in.
\* Raised inside create_subprocess_exec, the event loop closes the transport
\* of the child it forked, which kills the child, before the error leaves.
Watch_cancelled(w) ==
    /\ cancelReq[w]
    /\ wpc[w] \in LiveWatch
    /\ wpc' = [wpc EXCEPT ![w] = "cancelled"]
    /\ procState' = IF wpc[w] = "spawning"
                    THEN [procState EXCEPT ![wchild[w]] = "exited"]
                    ELSE procState
    /\ UNCHANGED <<processes, tasks, nprocs, procCam, wproc, wchild, unwatched>>
    /\ UNCHANGED <<watchRest, poolVars, upVars, cleanVars, svcVars>>

\* a capture process exits: it crashes, its stream ends, or it obeys SIGTERM
ProcExit(p) ==
    /\ procState[p] \in {"alive", "termed"}
    /\ procState' = [procState EXCEPT ![p] = "exited"]
    /\ UNCHANGED <<processes, tasks, nprocs, procCam, wpc, wproc, wchild, unwatched>>
    /\ UNCHANGED <<watchRest, poolVars, upVars, cleanVars, svcVars>>

\* the flag is cleared and the listed tasks are left running
stop_cancel_Omitted ==
    UNCHANGED <<running, cancelReq, workers, upc, cpc>>

\* stop() clears the flag and calls cancel() on every listed task; cancel()
\* does nothing to a task that has finished.  A cancelled worker runs no
\* further statement: CancelledError is raised at the await it is in.
stop_cancel ==
    /\ running' = FALSE
    /\ cancelReq' = [w \in Pids |-> w \in tasks.watchers /\ wpc[w] \in LiveWatch]
    /\ workers' = IF tasks.workers THEN "cancelled" ELSE workers
    /\ upc' = IF tasks.workers THEN "cancelled" ELSE upc
    /\ cpc' = IF tasks.workers THEN "cancelled" ELSE cpc

\* the grace period ends and the process is left alone
kill_Skipped(pst, p) == pst

\* proc.kill(): SIGKILL ends the process
kill(pst, p) == [pst EXCEPT ![p] = "exited"]

\* the process is not signalled before stop() waits for it
terminate_Skipped(pst, p) == pst

\* proc.terminate() on a process that has not exited: SIGTERM is sent
terminate(pst, p) == [pst EXCEPT ![p] = "termed"]

\* the cameras the iteration over the process table has yet to reach
TableFrom(c) == {d \in Cameras : d >= c /\ processes[d] # 0}

\* the loop of stop() over the process table from camera c on, up to its
\* next await, with pst the state of the processes.  terminate() on a process
\* whose transport is closed raises ProcessLookupError, which stop() does not
\* catch; while the transport is still closing it does nothing.  With no
\* entry left the table and the task list are cleared and stop() returns.
stop_processes(c, pst) ==
    IF TableFrom(c) = {}
    THEN /\ processes' = [d \in Cameras |-> 0]
         /\ tasks' = NoTasks
         /\ stopPc' = "returned"
         /\ stopCam' = 0
         /\ procState' = pst
    ELSE LET d == MinOf(TableFrom(c))
             p == processes[d]
         IN  /\ stopCam' = d
             /\ UNCHANGED <<processes, tasks>>
             /\ \/ /\ pst[p] # "exited"
                   /\ procState' = terminate(pst, p)
                   /\ stopPc' = "waiting"
                \/ /\ pst[p] = "exited"
                   /\ procState' = pst
                   /\ stopPc' \in {"waiting", "raised"}

\* the variables no step of stop() changes
stopRest == <<startPc, startChild, nprocs, procCam, wpc, wproc, wchild, unwatched,
              startFailed>>

\* stop(), up to its first await.  The lifespan handler calls it once, at
\* shutdown, after start() has returned or without start() when recording
\* is disabled.
Stop_begin ==
    /\ stopPc = "idle"
    /\ startPc \in {"idle", "done"}
    /\ stop_cancel
    /\ stop_processes(1, procState)
    /\ UNCHANGED <<stopRest, killed, poolVars, gdrive, upRest>>

\* every cancellation requested by stop() is delivered before stop() runs
\* again: the event loop runs callbacks in the order they were scheduled
CancelsDelivered == \A w \in Pids : cancelReq[w] => wpc[w] \notin LiveWatch

\* wait_for(proc.wait(), 5) returns: the process exited within the grace period
Stop_wait_done ==
    /\ stopPc = "waiting"
    /\ CancelsDelivered
    /\ procState[processes[stopCam]] = "exited"
    /\ stop_processes(stopCam + 1, procState)
    /\ UNCHANGED <<running, cancelReq, workers, upc, cpc>>
    /\ UNCHANGED <<stopRest, killed, poolVars, gdrive, upRest>>

\* wait_for raises TimeoutError: the process is killed
Stop_timeout ==
    /\ stopPc = "waiting"
    /\ CancelsDelivered
    /\ procState[processes[stopCam]] # "exited"
    /\ stop_processes(stopCam + 1, kill(procState, processes[stopCam]))
    /\ killed' = killed \cup {processes[stopCam]}
    /\ UNCHANGED <<running, cancelReq, workers, upc, cpc>>
    /\ UNCHANGED <<stopRest, poolVars, gdrive, upRest>>

RecNext ==
    \/ Start_begin
    \/ Start_fetched
    \/ Start_spawned
    \/ \E w \in Pids : Watch_begin(w)
    \/ \E w \in Pids : Watch_exit(w)
    \/ \E w \in Pids : Watch_backoff_done(w)
    \/ \E w \in Pids : Watch_spawned(w)
    \/ \E w \in Pids : Watch_cancelled(w)
    \/ \E p \in Pids : ProcExit(p)
    \/ Stop_begin
    \/ Stop_wait_done
    \/ Stop_timeout

\* the supervisor when start() may be called more than once
RecAgainNext ==
    \/ RecNext
    \/ Start_again

(***************************************************************************)
(* The upload worker (RecordingManager._upload_worker).                    *)
(***************************************************************************)
RECURSIVE sorted(_)
\* sorted(cam_dir.glob("*.mp4")): the names in ascending order
sorted(S) ==
    IF S = {} THEN <<>> ELSE <<MinOf(S)>> \o sorted(S \ {MinOf(S)})

\* the newest file is taken with the others
completed_KeepsNewest(l) == l

\* completed = mp4_files[:-1] if len(mp4_files) > 1 else []
completed(l) == IF Len(l) > 1 THEN SubSeq(l, 1, Len(l) - 1) ELSE <<>>

\* the first call of _upload_segment for file f of directory d
first_call(d, f) ==
    [dir |-> d, file |-> f, calls |-> 1, delays |-> <<>>, result |-> "pending"]

\* the worker is back at the top of its loop: it sleeps while the flag is
\* set.  lg is what is known of the file handled last.
upload_idle(lg) ==
    /\ upc' = IF running THEN "sleep" ELSE "done"
    /\ udir' = 0
    /\ mp4_files' = <<>>
    /\ uidx' = 0
    /\ attempt' = 0
    /\ ulog' = lg
    /\ strayAt' = -1

\* int(cam_dir.name) raises ValueError outside every try: the task ends
upload_crash(lg) ==
    /\ upc' = "crashed"
    /\ udir' = 0
    /\ mp4_files' = <<>>
    /\ uidx' = 0
    /\ attempt' = 0
    /\ ulog' = lg
    /\ strayAt' = -1

\* the loop over the camera directories from directory c on, with fs the
\* files on disk, up to its next await: directories with no completed file
\* are passed, and the first upload of the next directory is in flight.  The
\* directories are taken in the order of the camera ids; a camera without a
\* directory is a camera without files.  The listing yields the directory
\* whose name is not a camera id after camera directory `at`.
scan_from(c, fs, lg, at) ==
    LET ds == {d \in Cameras : d >= c /\ Len(completed(sorted(fs[d]))) > 0}
    IN  IF at >= c - 1 /\ (ds = {} \/ at < MinOf(ds))
        THEN upload_crash(lg)
        ELSE IF ds = {}
        THEN upload_idle(lg)
        ELSE /\ upc' = "upload"
             /\ strayAt' = at
             /\ udir' = MinOf(ds)
             /\ mp4_files' = sorted(fs[MinOf(ds)])
             /\ uidx' = 1
             /\ attempt' = 0
             /\ ulog' = first_call(MinOf(ds), sorted(fs[MinOf(ds)])[1])

\* the loop over `completed` goes on after the file at uidx
next_file(fs, lg) ==
    IF uidx < Len(completed(mp4_files))
    THEN /\ uidx' = uidx + 1
         /\ attempt' = 0
         /\ upc' = "upload"
         /\ ulog' = first_call(udir, completed(mp4_files)[uidx + 1])
         /\ UNCHANGED <<udir, mp4_files, strayAt>>
    ELSE scan_from(udir + 1, fs, lg, strayAt)

\* the file an upload is in flight for, or is being retried for
Selected == completed(mp4_files)[uidx]

\* a capture process of camera c begins a new segment file.  The name is
\* the local time: it is new, and it need not sort after the files already
\* there.
Segment_written(c, n) ==
    /\ \E p \in Pids : procCam[p] = c /\ procState[p] = "alive"
    /\ n \notin files[c]
    /\ remote[c][n] = 0
    /\ files' = [files EXCEPT ![c] = @ \cup {n}]
    /\ UNCHANGED <<gdrive, upc, udir, mp4_files, uidx, attempt, ulog, abandoned,
                   remote, lost, stray, strayAt>>
    /\ UNCHANGED <<poolVars, recVars, cleanVars, svcVars>>

\* a directory whose name is not a number appears in the recordings
\* directory (lost+found, a folder made by the operator)
Stray_created ==
    /\ ~stray
    /\ stray' = TRUE
    /\ UNCHANGED <<gdrive, files, upc, udir, mp4_files, uidx, attempt, ulog,
                   abandoned, remote, lost, strayAt>>
    /\ UNCHANGED <<poolVars, recVars, cleanVars, svcVars>>

\* the worker scans the directories whether remote storage is set or not
Upload_wake_Scans ==
    /\ upc = "sleep"
    /\ \E at \in (IF stray THEN 0..NumCameras ELSE {-1}) :
          scan_from(1, files, ulog, at)
    /\ UNCHANGED <<gdrive, files, abandoned, remote, lost, stray>>
    /\ UNCHANGED <<poolVars, recVars, cleanVars, svcVars>>

\* sleep(UPLOAD_INTERVAL) ends: without remote storage the worker sleeps
\* again, else it scans the directories
Upload_wake ==
    /\ upc = "sleep"
    /\ IF gdrive
       THEN \E at \in (IF stray THEN 0..NumCameras ELSE {-1}) :
                scan_from(1, files, ulog, at)
       ELSE upload_idle(ulog)
    /\ UNCHANGED <<gdrive, files, abandoned, remote, lost, stray>>
    /\ UNCHANGED <<poolVars, recVars, cleanVars, svcVars>>

\* _upload_segment returns: the file is on remote storage, the local file
\* is unlinked and the loop goes on
Upload_succeeded ==
    /\ upc = "upload"
    /\ remote' = [remote EXCEPT ![udir][Selected] = @ + 1]
    /\ files' = [files EXCEPT ![udir] = @ \ {Selected}]
    /\ abandoned' = [abandoned EXCEPT ![udir] = @ \ {Selected}]
    /\ next_file(files', [ulog EXCEPT !.result = "uploaded"])
    /\ UNCHANGED <<gdrive, lost, stray>>
    /\ UNCHANGED <<poolVars, recVars, cleanVars, svcVars>>

\* every retry waits as long as the first
retry_delay_Flat(a) == 5

\* asyncio.sleep(5 * (attempt + 1))
retry_delay(a) == 5 * (a + 1)

\* the file is unlinked when the last attempt has failed
give_up_Unlinks(fs) == [fs EXCEPT ![udir] = @ \ {Selected}]

\* after the last attempt the error is logged and the file stays where it is
give_up(fs) == fs

\* the except clause of an attempt: the first two attempts are followed by
\* a sleep, the third is logged and the loop goes on
upload_raised ==
    /\ IF attempt < 2
       THEN /\ upc' = "retry"
            /\ ulog' = [ulog EXCEPT !.delays = Append(@, retry_delay(attempt))]
            /\ UNCHANGED <<files, udir, mp4_files, uidx, attempt, abandoned, strayAt>>
       ELSE /\ files' = give_up(files)
            /\ abandoned' = [abandoned EXCEPT ![udir] = @ \cup {Selected}]
            /\ next_file(files', [ulog EXCEPT !.result = "abandoned"])
    /\ UNCHANGED <<gdrive, stray>>
    /\ UNCHANGED <<poolVars, recVars, cleanVars, svcVars>>

\* an attempt raises in _upload_segment before anything was stored
Upload_failed ==
    /\ upc = "upload"
    /\ upload_raised
    /\ UNCHANGED <<remote, lost>>

\* an attempt raises after upload_file had created the remote file: the
\* response was lost, or unlink raised
Upload_failed_stored ==
    /\ upc = "upload"
    /\ lost < MaxLost
    /\ lost' = lost + 1
    /\ remote' = [remote EXCEPT ![udir][Selected] = @ + 1]
    /\ upload_raised

\* the sleep before a retry ends: the next attempt is in flight
Upload_retry ==
    /\ upc = "retry"
    /\ attempt' = attempt + 1
    /\ upc' = "upload"
    /\ ulog' = [ulog EXCEPT !.calls = @ + 1]
    /\ UNCHANGED <<gdrive, files, udir, mp4_files, uidx, abandoned, remote, lost,
                   stray, strayAt>>
    /\ UNCHANGED <<poolVars, recVars, cleanVars, svcVars>>

UploadNext ==
    \/ Start_begin
    \/ Start_fetched
    \/ Start_spawned
    \/ \E c \in Cameras, n \in Names : Segment_written(c, n)
    \/ Upload_wake
    \/ Upload_succeeded
    \/ Upload_failed
    \/ Upload_retry

(***************************************************************************)
(* The cleanup worker (RecordingManager._cleanup_worker).                  *)
(***************************************************************************)
\* the orders in which remote storage may list the files of S
Listings(S) ==
    {l \in [1..Cardinality(S) -> S] : \A i, j \in 1..Cardinality(S) : l[i] = l[j] => i = j}

\* the worker is back at the top of its loop: it sleeps while the flag is set
cleanup_idle == cpc' = IF running THEN "sleep" ELSE "done"

\* the variables no step of the cleanup worker changes
cleanRest == <<poolVars, recVars, upVars, svcVars>>

\* a remote file becomes older than the retention cutoff
File_expires(f) ==
    /\ f \notin expired
    /\ f \notin Range(old_files)
    /\ expired' = expired \cup {f}
    /\ UNCHANGED <<cpc, old_files, cidx, cattempted, clog>>
    /\ UNCHANGED cleanRest

\* sleep(CLEANUP_INTERVAL) ends: without remote storage or retention the
\* worker sleeps again, else list_old_files is called
Cleanup_wake ==
    /\ cpc = "sleep"
    /\ IF ~gdrive \/ recording_retention_days <= 0
       THEN /\ cleanup_idle
            /\ UNCHANGED <<old_files, cattempted>>
       ELSE /\ cpc' = "listing"
            /\ old_files' = <<>>
            /\ cattempted' = {}
    /\ UNCHANGED <<expired, cidx, clog>>
    /\ UNCHANGED cleanRest

\* list_old_files returns the batch: the first delete is in flight
Cleanup_listed ==
    /\ cpc = "listing"
    /\ old_files' \in Listings(expired)
    /\ IF expired = {}
       THEN /\ cleanup_idle
            /\ clog' = "nothing"
            /\ UNCHANGED <<cidx, cattempted>>
       ELSE /\ cpc' = "deleting"
            /\ cidx' = 1
            /\ cattempted' = {old_files'[1]}
            /\ UNCHANGED clog
    /\ UNCHANGED expired
    /\ UNCHANGED cleanRest

\* list_old_files raises: the error is logged at the end of the try
Cleanup_list_failed ==
    /\ cpc = "listing"
    /\ cleanup_idle
    /\ clog' = "Cleanup failed"
    /\ UNCHANGED <<expired, old_files, cidx, cattempted>>
    /\ UNCHANGED cleanRest

\* delete_file returns: the loop over the batch goes on
Cleanup_deleted ==
    /\ cpc = "deleting"
    /\ expired' = expired \ {old_files[cidx]}
    /\ IF cidx < Len(old_files)
       THEN /\ cidx' = cidx + 1
            /\ cattempted' = cattempted \cup {old_files[cidx + 1]}
            /\ UNCHANGED <<cpc, clog>>
       ELSE /\ cleanup_idle
            /\ cidx' = 0
            /\ clog' = "Cleanup: removed"
            /\ UNCHANGED cattempted
    /\ UNCHANGED old_files
    /\ UNCHANGED cleanRest

\* delete_file raises: the one try around the pass catches the error, logs
\* it, and the pass is over
Cleanup_delete_failed ==
    /\ cpc = "deleting"
    /\ cleanup_idle
    /\ cidx' = 0
    /\ clog' = "Cleanup failed"
    /\ UNCHANGED <<expired, old_files, cattempted>>
    /\ UNCHANGED cleanRest

CleanupNext ==
    \/ Start_begin
    \/ Start_fetched
    \/ Start_spawned
    \/ \E f \in OldIds : File_expires(f)
    \/ Cleanup_wake
    \/ Cleanup_listed
    \/ Cleanup_list_failed
    \/ Cleanup_deleted
    \/ Cleanup_delete_failed

UploadFaultNext ==
    \/ UploadNext
    \/ Stray_created
    \/ Upload_failed_stored

(***************************************************************************)
(* The folder cache (RecordingManager._get_folder_id).  Ids and names are  *)
(* texts, a text is a sequence of characters.  _upload_segment is the only *)
(* caller and the upload worker the only task that runs it, so one call is *)
(* under way at a time.                                                    *)
(***************************************************************************)
\* the characters of a Drive file id: letters, digits, - and _, never a /
IdChars == {"a"}

\* the characters of a folder name: a camera name is free text
NameChars == {"a", "/"}

\* the texts of 1..n characters of the set C
Texts(C, n) == UNION {[1..k -> C] : k \in 1..n}

FolderIds == Texts(IdChars, MaxIdLen)
FolderNames == Texts(NameChars, MaxNameLen)

\* the parent is left out of the key
cache_key_NameOnly(name, parent_id) == name

\* cache_key = f"{parent_id}/{name}"
cache_key(name, parent_id) == parent_id \o <<"/">> \o name

\* cache_key in self._folder_cache
Cached(k) == \E e \in folder_cache : e[1] = k

\* self._folder_cache[cache_key]
CacheGet(k) == (CHOOSE e \in folder_cache : e[1] = k)[2]

\* self._folder_cache[cache_key] = folder_id
CachePut(k, id) == {e \in folder_cache : e[1] # k} \cup {<<k, id>>}

\* _get_folder_id(name, parent_id) up to its await: a hit returns the
\* memoized id, a miss leaves the find-or-create running in a thread
Folder_call(name, parent_id) ==
    /\ fpc = "idle"
    /\ IF Cached(cache_key(name, parent_id))
       THEN /\ flog' = [name |-> name, parent |-> parent_id, calls |-> 0,
                        result |-> CacheGet(cache_key(name, parent_id))]
            /\ UNCHANGED <<fpc, fname, fparent>>
       ELSE /\ fpc' = "remote"
            /\ fname' = name
            /\ fparent' = parent_id
            /\ flog' = [name |-> name, parent |-> parent_id, calls |-> 1,
                        result |-> <<>>]
    /\ UNCHANGED <<folder_cache, drive_folders, resolved>>
    /\ UNCHANGED <<poolVars, recVars, upVars, cleanVars, dayVars, segVars, retVars>>

\* GDriveService.get_or_create_folder with the ids remote storage can give
\* out: the id of the folder of that name under that parent, made with an
\* id of its own if there is none
FoundOrCreatedIn(ids, name, parent_id) ==
    IF \E f \in drive_folders : f[1] = parent_id /\ f[2] = name
    THEN {f \in drive_folders : f[1] = parent_id /\ f[2] = name}
    ELSE {<<parent_id, name, id>> :
            id \in ids \ {f[3] : f \in drive_folders}}

FoundOrCreated(name, parent_id) == FoundOrCreatedIn(FolderIds, name, parent_id)

\* the find-or-create returns: the id is memoized and returned
Folder_returned ==
    /\ fpc = "remote"
    /\ \E f \in FoundOrCreated(fname, fparent) :
          /\ drive_folders' = drive_folders \cup {f}
          /\ folder_cache' = CachePut(cache_key(fname, fparent), f[3])
          /\ flog' = [flog EXCEPT !.result = f[3]]
          /\ resolved' = resolved \cup {f}
    /\ fpc' = "idle"
    /\ UNCHANGED <<fname, fparent>>
    /\ UNCHANGED <<poolVars, recVars, upVars, cleanVars, dayVars, segVars, retVars>>

\* the find-or-create raises: nothing is memoized and the error goes to the
\* caller
Folder_failed ==
    /\ fpc = "remote"
    /\ fpc' = "idle"
    /\ flog' = [flog EXCEPT !.result = <<"error">>]
    /\ UNCHANGED <<folder_cache, fname, fparent, drive_folders, resolved>>
    /\ UNCHANGED <<poolVars, recVars, upVars, cleanVars, dayVars, segVars, retVars>>

FolderNext ==
    \/ \E name \in FolderNames : \E parent_id \in FolderIds :
          Folder_call(name, parent_id)
    \/ Folder_returned
    \/ Folder_failed

(***************************************************************************)
(* The days with recordings (RecordingService.get_recording_days).  The    *)
(* date folders of a camera are the ones _upload_segment makes, named      *)
(* after the first ten characters of a segment's file name, which ffmpeg   *)
(* writes as %Y-%m-%d.                                                     *)
(***************************************************************************)
Years == (2027 - NumYears)..2026
Months == {2 + 9 * (k % 2) + (k \div 2) : k \in 0..(NumMonths - 1)}
Days == {3 + ((12 * k) % 28) : k \in 0..(NumDays - 1)}

DigitChar == <<"0", "1", "2", "3", "4", "5", "6", "7", "8", "9">>

RECURSIVE decimal(_)
\* the decimal digits of a natural number
decimal(n) ==
    IF n < 10 THEN <<DigitChar[n + 1]>>
    ELSE decimal(n \div 10) \o <<DigitChar[(n % 10) + 1]>>

RECURSIVE zero_padded(_, _)
\* the format specifications 04d and 02d: zeros in front up to the width w
zero_padded(s, w) == IF Len(s) >= w THEN s ELSE zero_padded(<<"0">> \o s, w)

\* strftime("%Y-%m-%d")
date_str(y, m, d) ==
    zero_padded(decimal(y), 4) \o <<"-">> \o zero_padded(decimal(m), 2)
        \o <<"-">> \o zero_padded(decimal(d), 2)

\* prefix = f"{year:04d}-{month:02d}-"
prefix(year, month) ==
    zero_padded(decimal(year), 4) \o <<"-">> \o zero_padded(decimal(month), 2)
        \o <<"-">>

\* name.startswith(prefix)
startswith(name, pre) ==
    Len(name) >= Len(pre) /\ SubSeq(name, 1, Len(pre)) = pre

\* name[len(prefix):]
after(name, pre) == SubSeq(name, Len(pre) + 1, Len(name))

IsDigits(s) == s # <<>> /\ \A i \in 1..Len(s) : \E v \in 1..10 : DigitChar[v] = s[i]

\* int(s) does not raise ValueError: digits, after a sign or not
IsInt(s) == IsDigits(s) \/ (s # <<>> /\ s[1] = "-" /\ IsDigits(Tail(s)))

RECURSIVE digits_value(_)
digits_value(s) ==
    IF s = <<>> THEN 0
    ELSE 10 * digits_value(SubSeq(s, 1, Len(s) - 1))
         + (CHOOSE v \in 0..9 : DigitChar[v + 1] = s[Len(s)])

\* int(s)
int(s) == IF s[1] = "-" THEN 0 - digits_value(Tail(s)) ELSE digits_value(s)

RECURSIVE insert(_, _)
insert(x, l) ==
    IF l = <<>> THEN <<x>>
    ELSE IF x <= Head(l) THEN <<x>> \o l
    ELSE <<Head(l)>> \o insert(x, Tail(l))

\* the days are returned in the order of the listing
sorted_days_AsListed(l) == l

RECURSIVE sorted_days(_)
\* sorted(days)
sorted_days(l) == IF l = <<>> THEN <<>> ELSE insert(Head(l), sorted_days(Tail(l)))

RECURSIVE month_days(_, _)
\* the loop over date_folders: the day of every name that starts with the
\* prefix and ends in a number, in the order of the listing
month_days(folders, pre) ==
    IF folders = <<>> THEN <<>>
    ELSE (IF startswith(Head(folders), pre) /\ IsInt(after(Head(folders), pre))
          THEN <<int(after(Head(folders), pre))>>
          ELSE <<>>) \o month_days(Tail(folders), pre)

\* the upload worker makes the date folder of the day a segment was
\* recorded on; the camera's folder is made with the first of them
Date_folder_created(y, m, d) ==
    /\ Len(date_folders) < MaxFolders
    /\ <<y, m, d>> \notin created
    /\ date_folders' = Append(date_folders, date_str(y, m, d))
    /\ created' = created \cup {<<y, m, d>>}
    /\ UNCHANGED <<dquery, date_listing, dseen, days>>
    /\ UNCHANGED <<poolVars, recVars, upVars, cleanVars, foldVars, segVars, retVars>>

\* get_recording_days(camera, year, month) with remote storage configured:
\* no camera folder gives [], else the date folders are listed and the days
\* of the month returned
get_recording_days(year, month) ==
    /\ dquery' = [year |-> year, month |-> month]
    /\ dseen' = created
    /\ date_listing' = date_folders
    /\ IF date_folders = <<>>
       THEN days' = <<>>
       ELSE days' = sorted_days(month_days(date_folders, prefix(year, month)))
    /\ UNCHANGED <<date_folders, created>>
    /\ UNCHANGED <<poolVars, recVars, upVars, cleanVars, foldVars, segVars, retVars>>

DaysNext ==
    \/ \E y \in Years : \E m \in Months : \E d \in Days : Date_folder_created(y, m, d)
    \/ \E year \in Years : \E month \in Months : get_recording_days(year, month)

(***************************************************************************)
(* The upload of one segment (RecordingManager._upload_segment).  A file   *)
(* name is a text; the capture process names a segment after the time it   *)
(* began it, with the pattern %Y-%m-%d_%H-%M-%S.mp4.                        *)
(***************************************************************************)
\* the times segments are written at: <<year, month, day, hour, minute, second>>
SegmentTimes == {<<2026, 2, 28, 14, 0, 0>>, <<2026, 11, 3, 0, 5, 59>>}

\* the camera ids a directory is named after: the active cameras, and one
\* that was not active when start() cached the names
SegmentCameras == 1..(NumCameras + 1)

\* settings.gdrive_folder_id
gdrive_folder_id == <<"a">>

\* the ids remote storage gives the folders it makes
SegmentIds == Texts(IdChars, 2 * MaxSegments + 1) \ {gdrive_folder_id}

\* self._camera_names after start(): camera.name of every active camera
camera_names == [c \in Cameras |-> IF c = 1 THEN <<"a">> ELSE <<"a", "/", "a">>]

\* strftime of the pattern of the segment files
strftime(t) ==
    date_str(t[1], t[2], t[3]) \o <<"_">> \o zero_padded(decimal(t[4]), 2)
        \o <<"-">> \o zero_padded(decimal(t[5]), 2)
        \o <<"-">> \o zero_padded(decimal(t[6]), 2) \o <<".", "m", "p", "4">>

\* Path.stem: the name without its last suffix
stem(name) ==
    LET dots == {i \in 2..Len(name) : name[i] = "."}
    IN  IF dots = {} THEN name
        ELSE SubSeq(name, 1, (CHOOSE i \in dots : \A j \in dots : j <= i) - 1)

\* s.replace(a, b) for single characters
replace(s, a, b) == [i \in 1..Len(s) |-> IF s[i] = a THEN b ELSE s[i]]

\* self._camera_names.get(camera_id, f"camera_{camera_id}")
camera_name(c) ==
    IF c \in DOMAIN camera_names
    THEN camera_names[c]
    ELSE <<"c", "a", "m", "e", "r", "a", "_">> \o decimal(c)

\* date_str = mp4.stem[:10]
stem_date(mp4) == SubSeq(stem(mp4), 1, IF Len(stem(mp4)) < 10 THEN Len(stem(mp4)) ELSE 10)

\* time_str = mp4.stem[11:]
time_str(mp4) == SubSeq(stem(mp4), 12, Len(stem(mp4)))

\* the dashes of the time are kept
drive_filename_KeepsDashes(mp4) == time_str(mp4) \o <<".", "m", "p", "4">>

\* drive_filename = f"{time_str.replace('-', ':')}.mp4"
drive_filename(mp4) == replace(time_str(mp4), "-", ":") \o <<".", "m", "p", "4">>

\* _upload_segment from the lookup of the date folder to its next await,
\* with the camera folder known: a hit of the cache leaves upload_file
\* running in a thread, a miss the find-or-create of the date folder
segment_date_folder(call, cam_folder_id) ==
    LET key == cache_key(stem_date(call.mp4), cam_folder_id)
        \* the cache as the lookup of the camera folder left it
        hits == {e \in folder_cache' : e[1] = key}
    IN  IF hits # {}
        THEN /\ spc' = "upload_file"
             /\ scall' = [call EXCEPT !.cam_folder_id = cam_folder_id,
                                      !.date_folder_id = (CHOOSE e \in hits : TRUE)[2]]
        ELSE /\ spc' = "date_folder"
             /\ scall' = [call EXCEPT !.cam_folder_id = cam_folder_id]

\* what no step of _upload_segment changes
segRest == <<fpc, fname, fparent, flog, resolved, retVars>>

\* _upload_segment(camera_id, mp4) is called for the segment camera c began
\* at time t, and runs up to its first await
Segment_call(c, t) ==
    /\ spc = "idle"
    /\ scount < MaxSegments
    /\ scount' = scount + 1
    /\ UNCHANGED <<folder_cache, drive_folders, supload>>
    /\ LET call == [NoSegment EXCEPT !.camera_id = c, !.written = t,
                                     !.mp4 = strftime(t)]
           key == cache_key(camera_name(c), gdrive_folder_id)
       IN  IF Cached(key)
           THEN segment_date_folder(call, CacheGet(key))
           ELSE /\ spc' = "camera_folder"
                /\ scall' = call
    /\ UNCHANGED <<poolVars, recVars, upVars, cleanVars, dayVars, segRest>>

\* the find-or-create of the camera folder returns: the id is memoized and
\* the date folder is looked up
Segment_camera_folder ==
    /\ spc = "camera_folder"
    /\ \E f \in FoundOrCreatedIn(SegmentIds, camera_name(scall.camera_id),
                                 gdrive_folder_id) :
          /\ drive_folders' = drive_folders \cup {f}
          /\ folder_cache' = CachePut(cache_key(f[2], f[1]), f[3])
          /\ segment_date_folder(scall, f[3])
    /\ UNCHANGED <<supload, scount>>
    /\ UNCHANGED <<poolVars, recVars, upVars, cleanVars, dayVars, segRest>>

\* the find-or-create of the date folder returns: the id is memoized and
\* upload_file is left running in a thread
Segment_date_folder ==
    /\ spc = "date_folder"
    /\ \E f \in FoundOrCreatedIn(SegmentIds, stem_date(scall.mp4),
                                 scall.cam_folder_id) :
          /\ drive_folders' = drive_folders \cup {f}
          /\ folder_cache' = CachePut(cache_key(f[2], f[1]), f[3])
          /\ scall' = [scall EXCEPT !.date_folder_id = f[3]]
    /\ spc' = "upload_file"
    /\ UNCHANGED <<supload, scount>>
    /\ UNCHANGED <<poolVars, recVars, upVars, cleanVars, dayVars, segRest>>

\* upload_file(mp4, date_folder_id, drive_filename) returns, and
\* _upload_segment with it
Segment_uploaded ==
    /\ spc = "upload_file"
    /\ supload' = [camera_id |-> scall.camera_id, written |-> scall.written,
                   parent |-> scall.date_folder_id,
                   name |-> drive_filename(scall.mp4)]
    /\ spc' = "idle"
    /\ UNCHANGED <<folder_cache, drive_folders, scall, scount>>
    /\ UNCHANGED <<poolVars, recVars, upVars, cleanVars, dayVars, segRest>>

\* the call to remote storage under way raises: nothing is memoized or
\* uploaded and the error leaves _upload_segment
Segment_raised ==
    /\ spc \in {"camera_folder", "date_folder", "upload_file"}
    /\ spc' = "idle"
    /\ UNCHANGED <<folder_cache, drive_folders, scall, supload, scount>>
    /\ UNCHANGED <<poolVars, recVars, upVars, cleanVars, dayVars, segRest>>

SegmentNext ==
    \/ \E c \in SegmentCameras : \E t \in SegmentTimes : Segment_call(c, t)
    \/ Segment_camera_folder
    \/ Segment_date_folder
    \/ Segment_uploaded
    \/ Segment_raised

(***************************************************************************)
(* The retention of remote files: the cleanup worker with the files of     *)
(* remote storage, their creation times and the query of list_old_files    *)
(* (RecordingManager._cleanup_worker, GDriveService.list_old_files).       *)
(***************************************************************************)
\* timedelta(days=1) in clock units
DayUnits == SECONDS_PER_DAY * UnitsPerSecond

\* the ids of the files remote storage may hold
RemoteIds == 1..MaxRemote

\* cutoff = datetime.now(timezone.utc) - timedelta(days=older_than_days)
cutoff(now_utc, older_than_days) == now_utc - older_than_days * DayUnits

\* cutoff.strftime("%Y-%m-%dT%H:%M:%S"): the part of a second is dropped
cutoff_str(t) == (t \div UnitsPerSecond) * UnitsPerSecond

\* the last query of list_old_files: createdTime < 'cutoff_str'
list_old_files(c) == {f \in drive_files : f.createdTime < c}

\* the guard of a cleanup pass lets every window through
no_cleanup_Always(storage, window) == ~storage

\* if not self._gdrive or settings.recording_retention_days <= 0: continue
no_cleanup(storage, window) == ~storage \/ window <= 0

\* what no step of the retention changes
retRest == <<poolVars, recVars, upVars, expired, foldVars, dayVars, segVars,
             wallSteps, retention_days>>

\* time passes: a part of a second, or a day
Wall_advance(d) ==
    /\ wallSteps < MaxWallSteps
    /\ wallSteps' = wallSteps + 1
    /\ wall' = wall + d
    /\ UNCHANGED <<poolVars, recVars, upVars, cleanVars, foldVars, dayVars, segVars,
                   retention_days, drive_files, sweep, swept>>

\* remote storage stores an uploaded segment: its createdTime is the time
\* of the upload
Remote_created(id) ==
    /\ id \notin {f.id : f \in drive_files} \cup {s.id : s \in swept}
    /\ drive_files' = drive_files \cup {[id |-> id, createdTime |-> wall]}
    /\ UNCHANGED <<poolVars, recVars, upVars, cleanVars, foldVars, dayVars, segVars,
                   wall, wallSteps, retention_days, sweep, swept>>

\* sleep(CLEANUP_INTERVAL) ends: without remote storage or retention the
\* worker sleeps again, else list_old_files is called and computes its cutoff
Sweep_wake ==
    /\ cpc = "sleep"
    /\ IF no_cleanup(gdrive, retention_days)
       THEN /\ cleanup_idle
            /\ UNCHANGED <<old_files, cattempted, sweep>>
       ELSE /\ cpc' = "listing"
            /\ old_files' = <<>>
            /\ cattempted' = {}
            /\ sweep' = [now |-> wall, days |-> retention_days, storage |-> gdrive,
                         cutoff_str |-> cutoff_str(cutoff(wall, retention_days))]
    /\ UNCHANGED <<cidx, clog, wall, drive_files, swept>>
    /\ UNCHANGED retRest

\* the queries of list_old_files return: the first delete is in flight
Sweep_listed ==
    /\ cpc = "listing"
    /\ \E l \in Listings(list_old_files(sweep.cutoff_str)) :
          /\ old_files' = [i \in 1..Len(l) |-> l[i].id]
          /\ IF l = <<>>
             THEN /\ cleanup_idle
                  /\ clog' = "nothing"
                  /\ UNCHANGED <<cidx, cattempted>>
             ELSE /\ cpc' = "deleting"
                  /\ cidx' = 1
                  /\ cattempted' = {l[1].id}
                  /\ UNCHANGED clog
    /\ UNCHANGED <<wall, drive_files, sweep, swept>>
    /\ UNCHANGED retRest

\* list_old_files raises: the error is logged at the end of the try
Sweep_list_failed ==
    /\ cpc = "listing"
    /\ cleanup_idle
    /\ clog' = "Cleanup failed"
    /\ UNCHANGED <<old_files, cidx, cattempted, wall, drive_files, sweep, swept>>
    /\ UNCHANGED retRest

\* delete_file returns: the file is gone and the loop over the batch goes on
Sweep_deleted ==
    /\ cpc = "deleting"
    /\ drive_files' = {f \in drive_files : f.id # old_files[cidx]}
    /\ swept' = swept \cup {[id |-> f.id, createdTime |-> f.createdTime, pass |-> sweep] :
                              f \in {g \in drive_files : g.id = old_files[cidx]}}
    /\ IF cidx < Len(old_files)
       THEN /\ cidx' = cidx + 1
            /\ cattempted' = cattempted \cup {old_files[cidx + 1]}
            /\ UNCHANGED <<cpc, clog>>
       ELSE /\ cleanup_idle
            /\ cidx' = 0
            /\ clog' = "Cleanup: removed"
            /\ UNCHANGED cattempted
    /\ UNCHANGED <<old_files, wall, sweep>>
    /\ UNCHANGED retRest

\* delete_file raises: the one try around the pass catches the error, logs
\* it, and the pass is over
Sweep_delete_failed ==
    /\ cpc = "deleting"
    /\ cleanup_idle
    /\ cidx' = 0
    /\ clog' = "Cleanup failed"
    /\ UNCHANGED <<old_files, cattempted, wall, drive_files, sweep, swept>>
    /\ UNCHANGED retRest

RetentionNext ==
    \/ Start_begin
    \/ Start_fetched
    \/ Start_spawned
    \/ \E d \in {1, DayUnits} : Wall_advance(d)
    \/ \E id \in RemoteIds : Remote_created(id)
    \/ Sweep_wake
    \/ Sweep_listed
    \/ Sweep_list_failed
    \/ Sweep_deleted
    \/ Sweep_delete_failed

\* the primary pool (device_pool) under any order of calls and clock advances
DevicePoolSpec == Init /\ [][DevicePoolNext]_vars

\* the primary pool with the seconds of its Suspended failures in the history
DeviceReportsSpec == ReportsInit /\ [][DevicePoolNext]_vars

\* the control-channel pool (ptz_pool) under any interleaving of its tasks
PTZPoolSpec == Init /\ [][PTZPoolNext]_vars

\* the primary pool with the factory calls as the event loop runs them
DeviceLoopSpec == Init /\ [][DeviceLoopNext]_vars

\* `await client.connect()` of task t ends
PTZPool_connect_ends(t) ==
    PTZPool_connect_return(t) \/ \E msg \in ConnectErrors : PTZPool_connect_raise(t, msg)

\* the steps of PTZPool at one reading of the clock
PTZPoolLiveNext ==
    \/ \E t \in Tasks, k \in Keys : PTZPool_get(t, k)
    \/ \E t \in Tasks : PTZPool_get_acquire(t)
    \/ \E t \in Tasks : PTZPool_connect_ends(t)
    \/ \E t \in Tasks : PTZPool_get_cancelled(t)
    \/ \E k \in Keys : PTZPool_invalidate(k)

\* the control-channel pool when every factory call ends and the lock, once
\* free, is given to a task that waits for it (asyncio.Lock wakes its first
\* waiter)
PTZPoolLiveSpec ==
    /\ Init /\ [][PTZPoolLiveNext]_vars
    /\ \A t \in Tasks : WF_vars(PTZPool_connect_ends(t))
    /\ \A t \in Tasks : SF_vars(PTZPool_get_acquire(t))

\* the supervisor, its watchers and the capture processes under any
\* interleaving of their steps
RecSpec == Init /\ [][RecNext]_vars

\* the same, with start() called again after it returned
RecAgainSpec == Init /\ [][RecAgainNext]_vars

\* the upload worker and the segment files while the supervisor keeps
\* running and the capture processes stay up
UploadSpec == Init /\ [][UploadNext]_vars

\* the same with the faults of the worker's surroundings: a directory that is
\* no camera's, and uploads that are stored and yet reported as failed
UploadFaultSpec == Init /\ [][UploadFaultNext]_vars

\* the cleanup worker and the expiring remote files while the supervisor
\* keeps running
CleanupSpec == Init /\ [][CleanupNext]_vars

\* the calls of _get_folder_id, one after the other, with any arguments
FolderSpec == Init /\ [][FolderNext]_vars

\* the date folders of one camera and the queries for its days, in any order
DaysSpec == Init /\ [][DaysNext]_vars

\* the two pools with the route that updates a camera's credentials
CameraUpdateSpec == Init /\ [][CameraUpdateNext]_vars

\* the cleanup worker with the remote files, the clock and any retention
\* window
RetentionSpec == RetentionInit /\ [][RetentionNext]_vars

\* the calls of _upload_segment, one after the other, for any camera
\* directory and any segment
SegmentSpec == Init /\ [][SegmentNext]_vars

(***************************************************************************)
(* Properties of the session pools.                                        *)
(***************************************************************************)
TTLUnits == SESSION_TTL * UnitsPerSecond

\* the tasks whose connect() for key k of PTZPool is in flight
InFlight(k) == {t \in Tasks : tpc[t] = "connecting" /\ tkey[t] = k}

\* this step ran the body of DevicePool.get for key k
DeviceGetStep(k) ==
    lastOp'.op = "get" /\ lastOp'.pool = "device" /\ lastOp'.key = k

\* the get of this step called the factory
FactoryCalled == lastOp'.outcome \in {"created", "failed"}

\* the get of this step called no factory and changed no pool state
NoFactoryCall == nsess' = nsess /\ pool' = pool /\ lastOp'.outcome \notin {"created", "failed"}

\* C1: for every pool key, at most one connect() is in flight at any time.
\* DevicePool.get never yields while it holds the lock, so its connect is
\* never in flight across a step; PTZPool.get holds the lock of the key
\* while its connect is in flight, and a second connect for the key starts
\* only in a step where none is in flight.
C1_OneConnectInFlight ==
    [][\A k \in Keys :
          /\ Cardinality(InFlight(k)) <= 1
          /\ Cardinality(InFlight(k)') <= 1
          /\ \A t \in Tasks :
                (t \in InFlight(k)' /\ t \notin InFlight(k)) => InFlight(k) = {}
          /\ LockFree("device", k)]_vars

\* a connect is in flight for a key while another task waits for its lock
C1_Witness ==
    \E t1, t2 \in Tasks :
        /\ tpc[t1] = "connecting" /\ tpc[t2] = "waiting"
        /\ tkey[t1] = tkey[t2]

\* C2: while now - created_at <= TTL and the entry has not been invalidated,
\* get(k) returns the cached session and calls no factory; the first get(k)
\* after more than TTL calls the factory once and, when that succeeds,
\* caches the new session with created_at = now.
C2_TTL ==
    [][\A k \in Keys :
          LET entry == pool["device"][k]
          IN  DeviceGetStep(k) =>
                /\ (entry.present /\ now - entry.created_at <= TTLUnits) =>
                      /\ lastOp'.outcome = "hit"
                      /\ lastOp'.session = entry.session
                      /\ NoFactoryCall
                /\ (entry.present /\ now - entry.created_at > TTLUnits
                       /\ lastEvent[k] = "stored") =>
                      /\ FactoryCalled
                      /\ nsess' \in {nsess, nsess + 1}
                      /\ lastOp'.outcome = "created" =>
                            /\ lastOp'.session = nsess + 1
                            /\ pool'["device"][k] =
                                  [present |-> TRUE, session |-> nsess + 1,
                                   created_at |-> now]]_vars

\* a session was cached again after the one before it had expired
C2_Witness ==
    /\ lastOp.op = "get" /\ lastOp.pool = "device" /\ lastOp.outcome = "created"
    /\ lastOp.after = "stored"
    /\ pool["device"][lastOp.key].created_at > TTLUnits

\* C3: a connect() failure with "Try again in N seconds" (N > 0) at time t
\* suspends the key until t + N; a get(k) before t + N raises Suspended and
\* calls no factory; a get(k) at or after t + N discards the suspension and
\* calls the factory.
C3_Suspension ==
    [][\A k \in Keys :
          LET suspension == suspensions[k]
          IN  DeviceGetStep(k) =>
                /\ \A n \in SuspSeconds \ {0} :
                      (/\ lastOp'.outcome = "failed"
                       /\ lastOp'.error = ConnectionText(k, SuspensionText(n))) =>
                          suspensions'[k] =
                              [present |-> TRUE, retry_after |-> now + n * UnitsPerSecond]
                /\ (suspension.present /\ now < suspension.retry_after) =>
                      /\ lastOp'.outcome = "suspended"
                      /\ NoFactoryCall
                      /\ suspensions' = suspensions
                /\ (suspension.present /\ now >= suspension.retry_after) =>
                      /\ FactoryCalled
                      /\ suspensions'[k] # suspension]_vars

\* a get was refused by a suspension after the clock had advanced
C3_Witness ==
    /\ lastOp.op = "get" /\ lastOp.pool = "device" /\ lastOp.outcome = "suspended"
    /\ lastOp.after = "suspended"
    /\ now > 0

\* C4: after invalidate(k) or remove(k) on a key with no active suspension,
\* the next get(k) calls the factory, also when the entry had not expired.
C4_InvalidateForcesConnect ==
    [][\A k \in Keys :
          (/\ DeviceGetStep(k)
           /\ lastEvent[k] = "invalidated"
           /\ ~(suspensions[k].present /\ now < suspensions[k].retry_after))
          => FactoryCalled]_vars

\* a second session was created at time 0, right after the first one, still
\* fresh, had been invalidated
C4_Witness ==
    /\ lastOp.op = "get" /\ lastOp.pool = "device" /\ lastOp.outcome = "created"
    /\ lastOp.after = "invalidated"
    /\ now = 0 /\ nsess >= 2

\* C5: invalidate(k) and remove(k) leave the suspension table unchanged, and
\* a get(k) while the suspension is active raises Suspended without a
\* factory call, whether or not the key was invalidated before.
C5_InvalidateKeepsSuspension ==
    [][\A k \in Keys :
          /\ (lastOp'.op \in {"invalidate", "remove"} /\ lastOp'.pool = "device")
                => suspensions' = suspensions
          /\ (/\ DeviceGetStep(k)
              /\ suspensions[k].present /\ now < suspensions[k].retry_after)
                => /\ lastOp'.outcome = "suspended"
                   /\ NoFactoryCall]_vars

\* a get was refused by a suspension right after the key had been invalidated
C5_Witness ==
    /\ lastOp.op = "get" /\ lastOp.pool = "device" /\ lastOp.outcome = "suspended"
    /\ lastOp.after = "invalidated"

\* C6: when connect() fails, get(k) raises the error of connect() and stores
\* no session; an error text without "Try again in N seconds" installs no
\* suspension, and the next get(k) calls the factory again.
C6_FailurePropagates ==
    [][\A k \in Keys :
          DeviceGetStep(k) =>
            /\ lastOp'.outcome = "failed" =>
                  /\ lastOp'.error \in
                        {ConnectionText(k, e) : e \in ConnectErrors}
                            \cup {AuthenticationText(k)}
                  /\ pool' = pool /\ nsess' = nsess
            /\ (/\ lastOp'.outcome = "failed"
                /\ lastOp'.error \in {ConnectionText(k, TimeoutText),
                                      ConnectionText(k, MinutesText)}) =>
                  /\ suspensions'[k] = NoSuspension
                  /\ lastEvent'[k] = "failed"
            /\ lastEvent[k] = "failed" => FactoryCalled]_vars

\* connect() failed twice in a row with texts that name no suspension
C6_Witness ==
    /\ lastOp.op = "get" /\ lastOp.pool = "device" /\ lastOp.outcome = "failed"
    /\ lastOp.error = ConnectionText(lastOp.key, MinutesText)
    /\ lastOp.after = "failed"
    /\ suspensions[lastOp.key] = NoSuspension

\* C21: a step that changes the cached entry or the suspension of a key is a
\* step of a task that holds the lock of that key: a step of DevicePool.get,
\* whose body runs under the lock from end to end, or the step of
\* PTZPool.get in which the holder of the lock stores its session.
C21_AccessUnderLock ==
    [][\A p \in Pools : \A k \in AllKeys :
          (pool'[p][k] # pool[p][k] \/ (p = "device" /\ suspensions'[k] # suspensions[k]))
          => /\ lastOp'.op = "get" /\ lastOp'.pool = p /\ lastOp'.key = k
             /\ p = "ptz" => (lastOp'.task # 0 /\ locks[p][k] = lastOp'.task)]_vars

\* C22: a get that finds the lock free and returns a cached session, and so
\* began after every invalidate made so far had returned, does not return a
\* session made by a connect that was in flight when its key was invalidated.
C22_NoStaleSession ==
    [][(lastOp'.op = "get" /\ lastOp'.outcome = "hit" /\ lastOp'.after # "waited")
          => lastOp'.session \notin hist.stale]_vars

C24_PTZBackoff ==
    [][\A k \in Keys :
          (/\ lastOp.op = "get" /\ lastOp.pool = "ptz" /\ lastOp.key = k
           /\ lastOp.outcome = "failed"
           /\ \E n \in SuspSeconds \ {0} : lastOp.error = SuspensionText(n)
           /\ lastOp'.op = "get" /\ lastOp'.pool = "ptz" /\ lastOp'.key = k)
          => lastOp'.outcome \notin {"connecting", "created"}]_vars

\* a session of at most TTL is cached for key k of DevicePool
FreshSession(k) ==
    pool["device"][k].present /\ now - pool["device"][k].created_at <= TTLUnits

\* C25: no key has a suspension entry together with a cached session that
\* has not expired; a suspension is installed only by a get that found no
\* such session, and a session is stored only by a get that found no active
\* suspension and leaves none.
C25_SuspensionExcludesSession ==
    [][\A k \in Keys :
          /\ ~(suspensions[k].present /\ FreshSession(k))
          /\ ~(suspensions'[k].present /\ FreshSession(k)')
          /\ (suspensions'[k].present /\ suspensions'[k] # suspensions[k]) =>
                ~FreshSession(k)
          /\ (pool'["device"][k].present /\ pool'["device"][k] # pool["device"][k]) =>
                /\ ~(suspensions[k].present /\ now < suspensions[k].retry_after)
                /\ ~suspensions'[k].present]_vars

\* a key was suspended while its expired session was still in the pool
C25_Witness ==
    \E k \in Keys :
        /\ suspensions[k].present /\ now < suspensions[k].retry_after
        /\ pool["device"][k].present
        /\ lastEvent[k] = "suspended"

\* C26: every get(k) that is under way returns or raises: the lock is
\* released by the get that returns from the cache, by the one whose
\* factory call returns or raises and by the one that is cancelled, so that
\* a task waiting for the lock gets it.  (DevicePool.get returns or raises
\* in the step in which it is called.)
C26_GetTerminates ==
    \A t \in Tasks : (tpc[t] # "idle") ~> (tpc[t] = "idle")

\* the task that held the lock in connect() was cancelled: the lock is free
\* again for the task that waits for it
C26_Witness ==
    /\ lastOp.op = "cancel" /\ lastOp.after # "waited"
    /\ locks["ptz"][lastOp.key] = 0
    /\ \E t \in Tasks : tpc[t] = "waiting" /\ tkey[t] = lastOp.key

\* C27: get(k) and invalidate(k) of DevicePool leave the cached entry, the
\* suspension and the lock of every other key as they were; and while a
\* get(k) is in its factory call, a get(j) for another key j can run.
C27_KeysIndependent ==
    /\ [][\A k \in AllKeys :
             (lastOp'.pool = "device" /\ lastOp'.key = k) =>
                \A j \in AllKeys \ {k} :
                    /\ pool'["device"][j] = pool["device"][j]
                    /\ suspensions'[j] = suspensions[j]
                    /\ locks'["device"][j] = locks["device"][j]]_vars
    /\ [](\A t \in Tasks : \A j \in AllKeys :
             (tpc[t] = "in_factory" /\ j # tkey[t]) =>
                ENABLED (\E u \in Tasks : DevicePool_get_enter(u, j)))

\* C28: when the factory call of get(k) fails with an error that
\* TapoClient.connect classifies as an authentication failure, get(k)
\* raises the authentication error and key k has no suspension afterwards,
\* whatever the text of the error of the device was.
C28_AuthNeverSuspends ==
    [][\A k \in Keys :
          (DeviceGetStep(k) /\ lastOp'.outcome = "failed" /\ IsAuthError(lastOp'.cause))
          => /\ lastOp'.error = AuthenticationText(k)
             /\ suspensions'[k] = NoSuspension
             /\ lastEvent'[k] = "failed"
             /\ pool' = pool]_vars

\* the device refused the credentials with a text that names a suspension of
\* ten minutes, and the key is not suspended
C28_Witness ==
    /\ lastOp.op = "get" /\ lastOp.pool = "device" /\ lastOp.outcome = "failed"
    /\ lastOp.cause = UnauthorizedText(SESSION_TTL)
    /\ lastOp.error = AuthenticationText(lastOp.key)
    /\ suspensions[lastOp.key] = NoSuspension

\* C29: the seconds a Suspended failure of get(k) reports are retry_after -
\* now cut down to whole seconds, lie between 0 and the N of the failure
\* that installed the suspension, and are not more than those the Suspended
\* failure before it reported for the same suspension.
C29_RemainingSeconds ==
    [][\A k \in Keys :
          (DeviceGetStep(k) /\ lastOp'.outcome = "suspended") =>
             LET r == lastOp'.remaining
                 left == suspensions[k].retry_after - now
             IN  /\ left > 0
                 /\ r * UnitsPerSecond <= left
                 /\ left < (r + 1) * UnitsPerSecond
                 /\ 0 <= r /\ r <= hist.seconds[k]
                 /\ hist.seconds[k] * UnitsPerSecond >= left
                 /\ hist.report.key = k => r <= hist.report.reported
                 /\ hist'.report.key = k /\ hist'.report.reported = r]_vars

\* two Suspended failures of one suspension, the second with fewer seconds
\* left than the first and with a part of a second cut off
C29_Witness ==
    /\ lastOp.op = "get" /\ lastOp.pool = "device" /\ lastOp.outcome = "suspended"
    /\ hist.report.key = lastOp.key
    /\ hist.report.reported = lastOp.remaining
    /\ hist.report.before > lastOp.remaining
    /\ (suspensions[lastOp.key].retry_after - now) % UnitsPerSecond # 0


\* C39: after update_camera has changed the credentials of a camera, no get
\* for the camera on either pool returns a session that was made with the
\* credentials it replaced.
C39_NoSessionWithOldCredentials ==
    [][(lastOp'.op = "get" /\ lastOp'.outcome \in {"hit", "created"})
          => lastOp'.session \notin hist.outdated]_vars

(***************************************************************************)
\* the cameras whose restart cycle goes on: a watcher of the camera is
\* waiting for its process, backing off or relaunching
Supervised == {c \in Cameras : \E w \in Pids : procCam[w] = c /\ wpc[w] \in LiveWatch}

\* C7: while the supervisor is running and stop() has not been called, the
\* crash-restart cycle of every camera that has a capture process recorded
\* goes on: some watcher of the camera is there to relaunch it after an exit.
C7_RestartCycleNeverEnds ==
    (running /\ stopPc = "idle") =>
        \A c \in Cameras : processes[c] # 0 => c \in Supervised

\* C8: once stop() has begun, no capture process is launched, and a watcher
\* that moves returns or is cancelled: it neither starts a backoff nor a
\* launch.
C8_NoLaunchAfterStop ==
    [][stopPc # "idle" =>
          /\ nprocs' = nprocs
          /\ \A w \in Pids : wpc'[w] # wpc[w] => wpc'[w] \in {"done", "cancelled"}]_vars

\* stop() is waiting for the process of one camera while the process of a later
\* camera has exited on its own and its watcher was cancelled without a launch
C8_Witness ==
    /\ stopPc = "waiting"
    /\ nprocs < MaxProcs
    /\ \E w \in Pids :
          /\ wpc[w] = "cancelled"
          /\ wproc[w] # 0
          /\ procState[wproc[w]] = "exited"
          /\ processes[procCam[w]] = wproc[w]
          /\ procCam[w] > stopCam

C15_OnlyRecordingCameras ==
    /\ \A p \in Pids : procState[p] # "unborn" => has_recording[procCam[p]]
    /\ \A p \in Pids : wpc[p] # "none" => has_recording[procCam[p]]
    /\ startPc = "done" =>
          \A c \in Cameras : (has_recording[c] /\ c \notin startFailed) =>
              \E p \in Pids : procCam[p] = c

\* C16: every capture process launched for a camera was given the camera's
\* own segment duration when the camera has one, else the global one.
C16_SegmentDuration ==
    \A p \in Pids : procState[p] # "unborn" =>
        segment_time(procCam[p]) =
            IF camera_segment_seconds[procCam[p]] # 0
            THEN camera_segment_seconds[procCam[p]]
            ELSE settings_segment_seconds

\* C19: a camera whose launch failed in start() has no entry in the process
\* table, no process and no watcher, then and later; the failure does not end
\* start(), and when start() has returned every other camera has had a
\* process and the two workers were created.
C19_StartSurvivesLaunchFailure ==
    /\ \A c \in startFailed :
          /\ processes[c] = 0
          /\ \A p \in Pids : procCam[p] # c
    /\ startFailed # {} => startPc \in {"spawning", "done"}
    /\ startPc = "done" =>
          /\ workers # "none"
          /\ upc # "none" /\ cpc # "none"
          /\ \A c \in Cameras \ startFailed : \E p \in Pids : procCam[p] = c

\* start() has returned with the two workers running after the launch of
\* the first camera failed and the second camera got its process, which has
\* since crashed and been replaced
C19_Witness ==
    /\ startPc = "done"
    /\ running
    /\ startFailed = {1}
    /\ workers = "running"
    /\ processes[2] > 1
    /\ procState[processes[2]] = "alive"

\* the processes launched so far for camera c
Launched(c) == {q \in Pids : procState[q] # "unborn" /\ procCam[q] = c}

\* C30: a watcher starts its 10-second sleep only when the process it waited
\* for has exited; a capture process is launched for a camera that had one
\* before only by the watcher of the process launched last for it, in the
\* step in which that watcher's sleep ends, with every earlier process of the
\* camera exited; and a watcher is created after the first of a camera only
\* for a process launched that way, while the earlier ones stay exited.
C30_RestartAfterExitAndBackoff ==
    [][/\ \A w \in Pids :
             (wpc[w] # "backoff" /\ wpc'[w] = "backoff") =>
                /\ wpc[w] = "waiting"
                /\ procState[wproc[w]] = "exited"
       /\ \A p \in Pids :
             (procState[p] = "unborn" /\ procState'[p] # "unborn"
                 /\ Launched(procCam'[p]) # {}) =>
                /\ \A q \in Launched(procCam'[p]) : procState[q] = "exited"
                /\ \E w \in Launched(procCam'[p]) :
                      /\ wpc[w] = "backoff" /\ wpc'[w] = "spawning"
                      /\ ~cancelReq[w]
                      /\ wproc[w] = w
                      /\ \A q \in Launched(procCam'[p]) : q <= w
                      /\ wchild'[w] = p
       /\ \A v \in Pids :
             (wpc[v] = "none" /\ wpc'[v] # "none"
                 /\ Launched(procCam[v]) # {v}) =>
                /\ \A q \in Launched(procCam[v]) \ {v} : procState[q] = "exited"
                /\ \E w \in Launched(procCam[v]) \ {v} :
                      /\ wpc[w] = "spawning" /\ wpc'[w] = "done"
                      /\ wchild[w] = v]_vars

\* a camera is recorded by a second process, watched by a new watcher, after
\* its first process exited and the watcher of that one slept and relaunched
C30_Witness ==
    \E w, v \in Pids :
        /\ w # v /\ procCam[w] = procCam[v]
        /\ procState[w] = "exited" /\ wpc[w] = "done" /\ wchild[w] = v
        /\ procState[v] = "alive" /\ wpc[v] = "waiting"
        /\ processes[procCam[v]] = v

\* the processes of camera c that have not exited
LiveProcs(c) == {p \in Pids : procCam[p] = c /\ procState[p] \in {"alive", "termed"}}

\* the watchers of camera c that wait for a process or sleep a backoff
WaitingWatchers(c) == {w \in Pids : procCam[w] = c /\ wpc[w] \in {"waiting", "backoff"}}

\* C31: every camera has at most one capture process that has not exited and
\* at most one watcher that waits for a process or sleeps a backoff, also
\* after restarts and after start() was called again.  (The process table is
\* a dict keyed by the camera id and holds one handle per camera by its type.)
C31_OnePerCamera ==
    \A c \in Cameras :
        /\ Cardinality(LiveProcs(c)) <= 1
        /\ Cardinality(WaitingWatchers(c)) <= 1

\* C32: after the launch a watcher makes at the end of its backoff has
\* failed, and while the supervisor is running and stop() has not been
\* called, the camera still has a watcher that waits, sleeps or launches:
\* only a watcher (or start()) ever launches, so without one no further
\* launch of the camera is attempted.
C32_RetryAfterFailedRelaunch ==
    (running /\ stopPc = "idle") =>
        \A c \in unwatched : c \in Supervised

\* C33: stop() does not end with an error, whatever processes have exited by
\* the time it runs, and when it has returned the process table and the task
\* list are empty.
C33_StopSurvivesDeadProcess ==
    /\ stopPc # "raised"
    /\ stopPc = "returned" =>
          /\ \A c \in Cameras : processes[c] = 0
          /\ tasks = NoTasks

\* C34: stop() calls kill() on a process only while it waits for that
\* process, the one of the camera it is at, after it has sent the process
\* SIGTERM and the wait has timed out with the process still running; when
\* the wait returns because the process exited, no kill() is called; and
\* SIGTERM is sent only by a step of stop(), to a process in the table.
C34_TerminateThenKill ==
    [][/\ \A p \in Pids :
             (p \notin killed /\ p \in killed') =>
                /\ stopPc = "waiting"
                /\ processes[stopCam] = p
                /\ procState[p] = "termed"
       /\ \A p \in Pids :
             (procState[p] # "termed" /\ procState'[p] = "termed") =>
                /\ stopPc \in {"idle", "waiting"}
                /\ stopPc' = "waiting"
                /\ processes[stopCam'] = p
                /\ procState[p] = "alive"
                /\ p \notin killed
       /\ (stopPc = "waiting" /\ procState[processes[stopCam]] = "exited")
             => killed' = killed]_vars

\* stop() killed the process of the first camera after the grace period and
\* is done with the second, whose process exited and was not killed
C34_Witness ==
    /\ stopPc = "returned"
    /\ \E p, q \in Pids :
          /\ procCam[p] = 1 /\ p \in killed
          /\ procCam[q] = 2 /\ q \notin killed /\ procState[q] = "exited"
          /\ wpc[q] = "cancelled" /\ wproc[q] = q

(***************************************************************************)
(* Properties of the upload worker.                                        *)
(***************************************************************************)
Newest(S) == CHOOSE x \in S : \A y \in S : y <= x

\* C10: when the worker scans a directory, mp4_files holds the files there
\* at that time; the file selected for upload is one of at least two such
\* files and is not the last of them in name order; and a file leaves a
\* directory only as the selected file of the directory's scan.
C10_NewestNeverSelected ==
    [][/\ (upc' = "upload" /\ (upc = "sleep" \/ udir' # udir)) =>
             Range(mp4_files') = files'[udir']
       /\ upc' \in {"upload", "retry"} =>
             /\ Cardinality(Range(mp4_files')) >= 2
             /\ Selected' \in Range(mp4_files')
             /\ Selected' # Newest(Range(mp4_files'))
       /\ \A c \in Cameras : \A f \in files[c] \ files'[c] :
             /\ upc = "upload"
             /\ c = udir
             /\ f = Selected
             /\ f # Newest(Range(mp4_files))]_vars

\* of three files found by a scan the first is uploaded and deleted, the
\* second is being uploaded, and the last is still in the directory
C10_Witness ==
    /\ upc = "upload"
    /\ Len(mp4_files) = 3
    /\ uidx = 2
    /\ mp4_files[1] \notin files[udir]
    /\ mp4_files[3] \in files[udir]

\* the worker has an upload of the selected file in flight and it returns
UploadReturns == upc = "upload" /\ Selected \notin files'[udir]

\* the worker has an upload of the selected file in flight and it raises
UploadRaises == upc = "upload" /\ files' = files /\ <<upc, ulog>>' # <<upc, ulog>>

\* the worker goes on with another file or ends the scan
LeavesFile ==
    \/ <<ulog.dir, ulog.file>>' # <<ulog.dir, ulog.file>>
    \/ upc' \in {"sleep", "done", "crashed"}

\* C11: a selected file gets at most 3 upload calls in a scan; each call
\* but the first follows a sleep, the k-th sleep being 5*k seconds; the
\* worker leaves the file at the first call that returns; after the first
\* and the second call that raise it sleeps, after the third it leaves the
\* file without a sleep.
C11_ThreeAttempts ==
    [][/\ ulog'.calls <= 3
       /\ \A k \in 1..Len(ulog'.delays) : ulog'.delays[k] = 5 * k
       /\ upc' = "upload" => ulog'.calls = Len(ulog'.delays) + 1
       /\ upc' = "retry" => ulog'.calls = Len(ulog'.delays)
       /\ UploadReturns => LeavesFile /\ upc' # "retry"
       /\ (UploadRaises /\ ulog.calls < 3) =>
             /\ upc' = "retry"
             /\ ulog'.delays = Append(ulog.delays, 5 * ulog.calls)
       /\ (UploadRaises /\ ulog.calls = 3) =>
             /\ LeavesFile
             /\ upc' # "retry"]_vars

\* the last file of a scan was uploaded by the third call, after sleeps of 5
\* and 10 seconds
C11_Witness ==
    /\ ulog.result = "uploaded"
    /\ ulog.calls = 3
    /\ ulog.delays = <<5, 10>>
    /\ ulog.file \notin files[ulog.dir]

\* C12: a file leaves its directory only when an upload of that file has
\* returned, and it is then on remote storage; a file given up after the third
\* failure stays in its directory, and the next scan of the directory has it
\* among the completed files again.
C12_NoSegmentLost ==
    [][/\ \A c \in Cameras : \A f \in files[c] \ files'[c] :
             /\ upc = "upload" /\ c = udir /\ f = Selected
             /\ ulog.dir = c /\ ulog.file = f /\ ulog.result = "pending"
             /\ remote'[c][f] >= 1
       /\ (UploadRaises /\ ulog.calls = 3) =>
             /\ Selected \in files'[udir]
             /\ Selected \in abandoned'[udir]
       /\ \A c \in Cameras : abandoned'[c] \subseteq files'[c]
       /\ (upc' = "upload" /\ (upc = "sleep" \/ udir' # udir)) =>
             abandoned'[udir'] \subseteq Range(completed(mp4_files'))]_vars

\* a file given up in an earlier scan is selected again
C12_Witness ==
    /\ upc = "upload"
    /\ Selected \in abandoned[udir]
    /\ ulog.calls = 1

\* C13: while the supervisor is running neither the upload loop nor the
\* cleanup loop has ended with an error.
C13_LoopsSurvive ==
    running => (upc # "crashed" /\ cpc # "crashed")

\* the cameras with a completed segment waiting in their directory
Pending == {c \in Cameras : Len(completed(sorted(files[c]))) > 0}

\* C35: while the supervisor is running with remote storage configured and a
\* completed segment waits in some directory, the upload worker is there to
\* upload it: it sleeps until its next scan, has an upload in flight or
\* waits for a retry.  A worker that has ended uploads nothing any more, in
\* this scan or a later one.
C35_PendingSegmentsHaveAWorker ==
    (running /\ gdrive /\ startPc = "done" /\ Pending # {}) =>
        upc \in {"sleep", "upload", "retry"}

\* C38: while remote storage is not set, because it is not configured or
\* because its initialisation failed in start(), no step uploads a segment
\* or begins an upload, and no local segment file is deleted.
C38_NoStorageNoUpload ==
    [][~gdrive' =>
          /\ remote' = remote
          /\ \A c \in Cameras : files[c] \subseteq files'[c]
          /\ upc' \notin {"upload", "retry"}]_vars

\* the upload worker is in its loop without remote storage, and completed
\* segments of every camera are waiting on disk
C38_Witness ==
    /\ ~gdrive
    /\ running
    /\ upc = "sleep"
    /\ Pending = Cameras
    /\ \A c \in Cameras : \A n \in Names : remote[c][n] = 0

(***************************************************************************)
(* Properties of the cleanup worker.                                       *)
(***************************************************************************)
\* C14: when a cleanup pass is over, a delete was called for every file of
\* its batch.
C14_BatchNotAborted ==
    cpc \in {"sleep", "done"} => Range(old_files) \subseteq cattempted


\* C18: however often a segment is uploaded, the remote date folder of its
\* camera holds at most one file with the segment's name.
C18_OneRemoteFilePerName ==
    \A c \in Cameras : \A n \in Names : remote[c][n] <= 1

\* C37: the cleanup worker deletes a remote file only in a pass that runs
\* with remote storage configured and a retention window of more than zero
\* days, and only a file created before the time of that pass minus the
\* window; with no retention window it deletes nothing.
C37_DeleteOnlyPastRetention ==
    /\ \A s \in swept :
          /\ s.pass.storage
          /\ s.pass.days > 0
          /\ s.createdTime < s.pass.now - s.pass.days * DayUnits
    /\ retention_days <= 0 => swept = {}

\* a pass deleted a file created less than a second before its cutoff and
\* left one created later, and is over
C37_Witness ==
    /\ cpc = "sleep"
    /\ \E s \in swept :
          /\ s.pass = sweep
          /\ s.createdTime + UnitsPerSecond >= sweep.now - sweep.days * DayUnits
    /\ \E f \in drive_files :
          /\ f.createdTime >= sweep.now - sweep.days * DayUnits
          /\ f.createdTime < sweep.now

(***************************************************************************)
(* Properties of the folder cache.                                         *)
(***************************************************************************)
\* C17: a call for a name and a parent for which an earlier call returned
\* from the remote find-or-create makes no remote call and returns the id
\* that call returned; every other call makes one remote call of its own;
\* an entry of the cache is never changed nor removed.
C17_RemoteCallOnlyOnMiss ==
    [][/\ flog' # flog /\ fpc = "idle" =>
            IF \E r \in resolved : r[1] = flog'.parent /\ r[2] = flog'.name
            THEN /\ flog'.calls = 0
                 /\ <<flog'.parent, flog'.name, flog'.result>> \in resolved
                 /\ fpc' = "idle"
            ELSE /\ flog'.calls = 1
                 /\ fpc' = "remote"
       /\ folder_cache \subseteq folder_cache'
       /\ \A e \in folder_cache' : \A g \in folder_cache' : e[1] = g[1] => e = g
       /\ \A r \in resolved : \A q \in resolved :
              (r[1] = q[1] /\ r[2] = q[2]) => r = q]_vars

\* a second call with the arguments of a resolved one has returned from the
\* cache, after a call with the same name and another parent and a call with
\* another name and the same parent were resolved by calls of their own
C17_Witness ==
    /\ fpc = "idle"
    /\ flog.calls = 0
    /\ flog.result # <<>>
    /\ \E r \in resolved : \E q \in resolved :
          r[1] # q[1] /\ r[2] = q[2] /\ r[2] = flog.name
    /\ \E r \in resolved : \E q \in resolved :
          r[1] = q[1] /\ r[2] # q[2] /\ r[1] = flog.parent

(***************************************************************************)
(* Properties of the recording queries.                                    *)
(***************************************************************************)
\* C20: get_recording_days(year, month) returns the days for which the
\* camera had a date folder of that year and month when the folders were
\* listed, each once and in ascending order; the folders of other months
\* and years add nothing.
C20_DaysOfMonth ==
    dquery # NoQuery =>
        /\ {days[i] : i \in 1..Len(days)} =
               {t[3] : t \in {u \in dseen : u[1] = dquery.year /\ u[2] = dquery.month}}
        /\ \A i \in 1..Len(days) : \A j \in 1..Len(days) : i < j => days[i] < days[j]

\* the listing gave a later day of the month before an earlier one, and a
\* folder of another month and one of another year
C20_Witness ==
    /\ dquery = [year |-> 2026, month |-> 2]
    /\ Len(days) = 2
    /\ \E i \in 1..Len(date_listing) : \E j \in 1..Len(date_listing) :
          /\ i < j
          /\ date_listing[i] = date_str(2026, 2, 15)
          /\ date_listing[j] = date_str(2026, 2, 3)
    /\ \E t \in dseen : t[1] = 2026 /\ t[2] # 2
    /\ \E t \in dseen : t[1] # 2026 /\ t[2] = 2

(***************************************************************************)
(* Properties of the upload of one segment.                                *)
(***************************************************************************)
\* the remote folders of that name under that parent
FoldersAt(parent_id, name) ==
    {f \in drive_folders : f[1] = parent_id /\ f[2] = name}

\* HH:MM:SS.mp4 for the time a segment was begun at
ClockName(t) ==
    zero_padded(decimal(t[4]), 2) \o <<":">> \o zero_padded(decimal(t[5]), 2)
        \o <<":">> \o zero_padded(decimal(t[6]), 2) \o <<".", "m", "p", "4">>

\* C36: a segment stored as <camera dir>/YYYY-MM-DD_HH-MM-SS.mp4 is
\* uploaded under the name HH:MM:SS.mp4 into the folder YYYY-MM-DD of the
\* camera's folder under the root, the camera's folder being named after
\* the name cached at start(), or camera_<id> for an id with no cached
\* name; the ids of both folders are the ones the folder cache holds.
C36_SegmentRemotePath ==
    supload # NoUpload =>
        LET t == supload.written
            folder == IF supload.camera_id \in Cameras
                      THEN camera_names[supload.camera_id]
                      ELSE <<"c", "a", "m", "e", "r", "a", "_">>
                               \o decimal(supload.camera_id)
            day == date_str(t[1], t[2], t[3])
        IN  /\ supload.name = ClockName(t)
            /\ \E cam \in FoldersAt(gdrive_folder_id, folder) :
                  /\ Cached(cache_key(folder, gdrive_folder_id))
                  /\ CacheGet(cache_key(folder, gdrive_folder_id)) = cam[3]
                  /\ \E date \in FoldersAt(cam[3], day) :
                        /\ supload.parent = date[3]
                        /\ Cached(cache_key(day, cam[3]))
                        /\ CacheGet(cache_key(day, cam[3])) = date[3]

\* a segment of a camera with no cached name was uploaded by a call that
\* found the camera's folder in the cache and made the folder of the day
C36_Witness ==
    /\ supload # NoUpload
    /\ supload.camera_id \notin Cameras
    /\ scount = MaxSegments
    /\ Cardinality(drive_folders) = 3
    /\ Cardinality(FoldersAt(gdrive_folder_id, camera_name(supload.camera_id))) = 1

==============================================================================
